---- MODULE Spec2Model ----
(***************************************************************************)
(* Agent Assessment Engine of erc8004-toolkit: the security audit          *)
(* (src/src/cli.js, audit.js part), the batch scan (src/src/cli.js,        *)
(* scan.js part), the endpoint probe (src/src/verify.js) and the           *)
(* reputation score (src/unnamed/part_001, score.js).                      *)
(*                                                                         *)
(* JavaScript values are tagged records, strings are TLA+ strings handled  *)
(* with Len, SubSeq and \o, and JavaScript numbers that are not integers   *)
(* are IEEE-754 binary64 values computed with round-to-nearest-even.       *)
(***************************************************************************)
EXTENDS Integers, Sequences, FiniteSets, TLC

----------------------------------------------------------------------------
(* IEEE-754 binary64 arithmetic on non-negative values.                    *)
(* A value is a little-endian sequence of NumLimbs limbs in base 2^13 with *)
(* FracLimbs fraction limbs: value = SUM l[i] * 2^(13*(i-1-FracLimbs)).    *)
(* Every operation computes the exact result and rounds it to 53           *)
(* significant bits, ties to even, which is what *, / and + on JavaScript  *)
(* numbers do.                                                             *)

LimbBits == 13
LimbBase == 2 ^ LimbBits
FracLimbs == 6
NumLimbs == FracLimbs + 2
Mantissa == 53

Pow2(n) == 2 ^ n

RECURSIVE CarryFrom(_, _, _)
CarryFrom(l, i, c) ==
    IF i > Len(l) THEN l
    ELSE LET v == l[i] + c
         IN  CarryFrom([l EXCEPT ![i] = v % LimbBase], i + 1, v \div LimbBase)

FromInt(k) == CarryFrom([i \in 1..NumLimbs |-> IF i = FracLimbs + 1 THEN k ELSE 0], 1, 0)

ScalarMul(l, k) == CarryFrom([i \in 1..NumLimbs |-> l[i] * k], 1, 0)

AddExact(a, b) == CarryFrom([i \in 1..NumLimbs |-> a[i] + b[i]], 1, 0)

IsZero(l) == \A i \in 1..NumLimbs : l[i] = 0

BitLen(l) ==
    IF IsZero(l) THEN 0
    ELSE LET top == CHOOSE i \in 1..NumLimbs :
                        l[i] # 0 /\ \A j \in (i+1)..NumLimbs : l[j] = 0
             n   == CHOOSE k \in 1..LimbBits : Pow2(k-1) <= l[top] /\ l[top] < Pow2(k)
         IN  LimbBits * (top - 1) + n

Bit(l, p) == (l[(p \div LimbBits) + 1] \div Pow2(p % LimbBits)) % 2

AnyBelow(l, p) ==
    \/ \E i \in 1..(p \div LimbBits) : l[i] # 0
    \/ (l[(p \div LimbBits) + 1] % Pow2(p % LimbBits)) # 0

ClearBelow(l, p) ==
    [i \in 1..NumLimbs |->
        IF i - 1 < p \div LimbBits THEN 0
        ELSE IF i - 1 = p \div LimbBits THEN l[i] - (l[i] % Pow2(p % LimbBits))
        ELSE l[i]]

AddBit(l, p) ==
    CarryFrom([l EXCEPT ![(p \div LimbBits) + 1] = @ + Pow2(p % LimbBits)], 1, 0)

(* Round the exact value l (plus, when sticky, a non-zero part below its   *)
(* last limb) to 53 significant bits, ties to even.                        *)
Round53(l, sticky) ==
    LET p == BitLen(l) - Mantissa
    IN  IF p <= 0 THEN l
        ELSE LET guard == Bit(l, p - 1) = 1
                 rest  == sticky \/ (p > 1 /\ AnyBelow(l, p - 1))
                 odd   == Bit(l, p) = 1
                 t     == ClearBelow(l, p)
             IN  IF guard /\ (rest \/ odd) THEN AddBit(t, p) ELSE t

(* k * w for an integer k and a binary64 w.                                *)
FMulInt(w, k) == Round53(ScalarMul(w, k), FALSE)

(* a + b for two binary64 values.                                          *)
FAdd(a, b) == Round53(AddExact(a, b), FALSE)

(* The fraction limbs of r / d (0 <= r < d < 2^13), most significant       *)
(* first, and the remainder left after the last one.                       *)
RECURSIVE FracDigits(_, _, _, _)
FracDigits(r, d, n, acc) ==
    IF n = 0 THEN [digits |-> acc, rem |-> r]
    ELSE FracDigits((r * LimbBase) % d, d, n - 1,
                    <<(r * LimbBase) \div d>> \o acc)

(* a / d for integers 0 <= a < 2^26 and 0 < d < 2^18.                      *)
FDivInt(a, d) ==
    LET f == FracDigits(a % d, d, FracLimbs, <<>>)
        q == CarryFrom(f.digits \o <<a \div d, 0>>, 1, 0)
    IN  Round53(q, f.rem # 0)

(* The limbs of l / d from limb i down, given the remainder r of the limbs *)
(* above i, and the remainder left after the last one.                     *)
RECURSIVE LongDiv(_, _, _, _, _)
LongDiv(l, d, i, r, acc) ==
    IF i = 0 THEN [digits |-> acc, rem |-> r]
    ELSE LongDiv(l, d, i - 1, (r * LimbBase + l[i]) % d,
                 <<(r * LimbBase + l[i]) \div d>> \o acc)

(* l / d for a binary64 l and an integer 0 < d < 2^18.                     *)
FDiv(l, d) ==
    LET q == LongDiv(l, d, NumLimbs, 0, <<>>)
    IN  Round53(q.digits, q.rem # 0)

(* Math.round: the nearest integer, ties towards +infinity.                *)
MathRound(l) ==
    l[FracLimbs + 1] + LimbBase * l[FracLimbs + 2]
        + Bit(l, LimbBits * FracLimbs - 1)

MathMax(a, b) == IF a >= b THEN a ELSE b
MathMin(a, b) == IF a <= b THEN a ELSE b

(* The weights of the two weighted sums as binary64 values:                *)
(* 0.25 = 0x3FD0000000000000, 0.30 = 0x3FD3333333333333,                   *)
(* 0.15 = 0x3FC3333333333333, 0.20 = 0x3FC999999999999A.                   *)
W025 == <<0, 0, 0, 0, 0, 2048, 0, 0>>
W030 == <<0, 6144, 3276, 1638, 4915, 2457, 0, 0>>
W015 == <<0, 3072, 1638, 4915, 6553, 1228, 0, 0>>
W020 == <<0, 2048, 4915, 6553, 3276, 1638, 0, 0>>

----------------------------------------------------------------------------
(* JavaScript strings.                                                     *)

UpperChars == "ABCDEFGHIJKLMNOPQRSTUVWXYZ"
LowerChars == "abcdefghijklmnopqrstuvwxyz"
DigitChars == "0123456789"

CharAt(s, i) == SubSeq(s, i, i)

(* s.substr(i, n) for 1 <= i, clipped at the end of s.                     *)
Sub(s, i, n) == IF i + n - 1 <= Len(s) THEN SubSeq(s, i, i + n - 1) ELSE SubSeq(s, i, Len(s))

LowerOf ==
    [c \in {CharAt(UpperChars, i) : i \in 1..Len(UpperChars)} |->
        CharAt(LowerChars, CHOOSE i \in 1..Len(UpperChars) : CharAt(UpperChars, i) = c)]

LowerChar(c) == IF c \in DOMAIN LowerOf THEN LowerOf[c] ELSE c

RECURSIVE toLowerCase(_)
toLowerCase(s) ==
    IF Len(s) <= 1 THEN LowerChar(s)
    ELSE LET h == Len(s) \div 2
         IN  toLowerCase(SubSeq(s, 1, h)) \o toLowerCase(SubSeq(s, h + 1, Len(s)))

startsWith(s, p) == Len(p) <= Len(s) /\ SubSeq(s, 1, Len(p)) = p

includesAt(s, t, i) == i + Len(t) - 1 <= Len(s) /\ SubSeq(s, i, i + Len(t) - 1) = t

includes(s, t) == \E i \in 1..(Len(s) - Len(t) + 1) : includesAt(s, t, i)

RECURSIVE Repeat(_, _)
Repeat(s, n) ==
    IF n = 0 THEN "" ELSE IF n = 1 THEN s
    ELSE Repeat(s, n \div 2) \o Repeat(s, n - (n \div 2))

(* String(n) for an integer n >= 0.                                        *)
RECURSIVE NumStr(_)
NumStr(n) ==
    IF n < 10 THEN CharAt(DigitChars, n + 1)
    ELSE NumStr(n \div 10) \o CharAt(DigitChars, (n % 10) + 1)

Digits == {CharAt(DigitChars, i) : i \in 1..Len(DigitChars)}

IsDigit(c) == c \in Digits

(* new RegExp(a + ".*" + b).test(s): a, then b anywhere after it. The text *)
(* tested is JSON.stringify output, which holds no line terminator.        *)
TestDotStar(s, a, b) ==
    \E i \in 1..(Len(s) - Len(a) + 1) :
        /\ includesAt(s, a, i)
        /\ \E j \in (i + Len(a))..(Len(s) - Len(b) + 1) : includesAt(s, b, j)

(* \d{1,3} at position i, k more times followed by "." and \d{1,3}.        *)
RECURSIVE DottedDigits(_, _, _)
DottedDigits(s, i, k) ==
    \E n \in 1..3 :
        /\ i + n - 1 <= Len(s)
        /\ \A d \in 0..(n - 1) : IsDigit(CharAt(s, i + d))
        /\ IF k = 0 THEN TRUE
           ELSE i + n <= Len(s) /\ CharAt(s, i + n) = "."
                /\ DottedDigits(s, i + n + 1, k - 1)

(* /https?:\/\/\d{1,3}\.\d{1,3}\.\d{1,3}\.\d{1,3}/.test(s)                  *)
TestRawIp(s) ==
    \E i \in 1..Len(s) :
        \/ includesAt(s, "http://", i) /\ DottedDigits(s, i + 7, 3)
        \/ includesAt(s, "https://", i) /\ DottedDigits(s, i + 8, 3)

----------------------------------------------------------------------------
(* JavaScript values: undefined, null, booleans, numbers, strings, arrays  *)
(* and objects.                                                            *)

UNDEF == [t |-> "undefined"]
JNull == [t |-> "null"]
JBool(b) == [t |-> "boolean", b |-> b]
JNum(n) == [t |-> "number", n |-> n]
JStr(s) == [t |-> "string", s |-> s]
JArr(a) == [t |-> "array", a |-> a]
JObj(f) == [t |-> "object", f |-> f]

(* !!v *)
Truthy(v) ==
    CASE v.t = "undefined" -> FALSE
      [] v.t = "null"      -> FALSE
      [] v.t = "boolean"   -> v.b
      [] v.t = "number"    -> v.n # 0
      [] v.t = "string"    -> v.s # ""
      [] OTHER             -> TRUE

(* v.k for a value v that is not null or undefined.                        *)
Get(v, k) ==
    IF v.t = "object" /\ k \in DOMAIN v.f THEN v.f[k]
    ELSE IF k = "length" /\ v.t = "string" THEN JNum(Len(v.s))
    ELSE IF k = "length" /\ v.t = "array" THEN JNum(Len(v.a))
    ELSE UNDEF

(* v?.k *)
OptGet(v, k) == IF v.t \in {"undefined", "null"} THEN UNDEF ELSE Get(v, k)

(* a || b *)
Or(a, b) == IF Truthy(a) THEN a ELSE b

(* The values a for...of loop over v visits; only arrays and strings are   *)
(* iterable.                                                               *)
IsIterable(v) == v.t \in {"array", "string"}
Elements(v) ==
    IF v.t = "array" THEN v.a
    ELSE [i \in 1..Len(v.s) |-> JStr(CharAt(v.s, i))]

(* JSON.stringify(v) for strings that need no escaping; the keys of an     *)
(* object are written in the order of KeyOrder, those that are undefined   *)
(* are left out.                                                           *)
KeyOrder == <<"name", "description", "endpoint", "active", "x402Support",
              "image", "version", "services">>

RECURSIVE stringify(_)
RECURSIVE StringifyItems(_, _)
RECURSIVE StringifyKeys(_, _, _)
StringifyItems(a, i) ==
    IF i > Len(a) THEN ""
    ELSE (IF i > 1 THEN "," ELSE "")
         \o (IF a[i].t = "undefined" THEN "null" ELSE stringify(a[i]))
         \o StringifyItems(a, i + 1)
StringifyKeys(f, i, first) ==
    IF i > Len(KeyOrder) THEN ""
    ELSE IF KeyOrder[i] \in DOMAIN f /\ f[KeyOrder[i]].t # "undefined"
         THEN (IF first THEN "" ELSE ",")
              \o "\"" \o KeyOrder[i] \o "\":" \o stringify(f[KeyOrder[i]])
              \o StringifyKeys(f, i + 1, FALSE)
         ELSE StringifyKeys(f, i + 1, first)
stringify(v) ==
    CASE v.t = "null"    -> "null"
      [] v.t = "boolean" -> IF v.b THEN "true" ELSE "false"
      [] v.t = "number"  -> NumStr(v.n)
      [] v.t = "string"  -> "\"" \o v.s \o "\""
      [] v.t = "array"   -> "[" \o StringifyItems(v.a, 1) \o "]"
      [] v.t = "object"  -> "{" \o StringifyKeys(v.f, 1, TRUE) \o "}"

----------------------------------------------------------------------------
(* audit.js: the security audit of one identity.                           *)

SUSPICIOUS_DOMAINS ==
    <<"bit.ly", "tinyurl.com", "is.gd", "t.co",
      "ngrok.io", "localhost", "127.0.0.1", "0.0.0.0">>

(* Each pattern is /a.*b/i; source is the text of the pattern.             *)
PHISHING_PATTERNS ==
    << [a |-> "metamask", b |-> "connect", source |-> "metamask.*connect"],
       [a |-> "wallet",   b |-> "approve", source |-> "wallet.*approve"],
       [a |-> "claim",    b |-> "airdrop", source |-> "claim.*airdrop"],
       [a |-> "free",     b |-> "token",   source |-> "free.*token"],
       [a |-> "urgent",   b |-> "action",  source |-> "urgent.*action"] >>

TornadoRouter1 == "0xd90e2f925DA726b50C4Ed8D0Fb90Ad053324F31b"
TornadoRouter2 == "0x722122dF12D4e14e13Ac3b6895a86e84145b6967"

KNOWN_BLACKLISTED_ADDRESSES ==
    {toLowerCase(TornadoRouter1), toLowerCase(TornadoRouter2)}

(* The result of a check that returned, and of one that threw. In the     *)
(* texts of the findings the dash of the source is written "-".           *)
Returned(issues, warnings, score) ==
    [ok |-> TRUE, issues |-> issues, warnings |-> warnings, score |-> score]
Threw(name) == [ok |-> FALSE, error |-> name]

(* The score without Math.max(0, ...).                                     *)
PenalisedNoFloor(issues, perIssue, warnings, perWarning) ==
    100 - Len(issues) * perIssue - Len(warnings) * perWarning

(* score = 100 - issues * perIssue - warnings * perWarning, floored at 0   *)
Penalised(issues, perIssue, warnings, perWarning) ==
    MathMax(0, 100 - Len(issues) * perIssue - Len(warnings) * perWarning)

(* The issues of the services loop with every service called unnamed.      *)
RECURSIVE SchemaServiceIssuesUnnamed(_, _)
SchemaServiceIssuesUnnamed(a, i) ==
    IF i > Len(a) THEN <<>>
    ELSE (IF ~Truthy(Get(a[i], "endpoint"))
          THEN <<"Service \"unnamed\" has no endpoint">>
          ELSE <<>>)
         \o SchemaServiceIssuesUnnamed(a, i + 1)

(* The issues of the services loop of checkMetadataSchema, lines 165-169.  *)
RECURSIVE SchemaServiceIssues(_, _)
SchemaServiceIssues(a, i) ==
    IF i > Len(a) THEN <<>>
    ELSE (IF ~Truthy(Get(a[i], "endpoint"))
          THEN <<"Service \"" \o Or(Get(a[i], "name"), JStr("unnamed")).s
                 \o "\" has no endpoint">>
          ELSE <<>>)
         \o SchemaServiceIssues(a, i + 1)

checkMetadataSchema(metadata) ==
    IF ~Truthy(metadata)
    THEN Returned(<<"No metadata found - agent has no identity information">>, <<>>, 0)
    ELSE
    LET name     == Get(metadata, "name")
        services == Get(metadata, "services")
        isArray  == services.t = "array"
        issues   ==
            (IF ~Truthy(name) THEN <<"Missing \"name\" field">> ELSE <<>>)
            \o (IF Truthy(services) /\ isArray
                THEN SchemaServiceIssues(services.a, 1) ELSE <<>>)
        warnings ==
            (IF ~Truthy(Get(metadata, "description"))
             THEN <<"Missing \"description\" field">> ELSE <<>>)
            \o (IF Truthy(name) /\ Get(name, "length").t = "number"
                   /\ Get(name, "length").n > 200
                THEN <<"Name is suspiciously long (" \o NumStr(Get(name, "length").n)
                       \o " chars)">>
                ELSE <<>>)
            \o (IF ~Truthy(services) \/ ~isArray
                THEN <<"No services array - agent cannot be contacted">> ELSE <<>>)
    IN  Returned(issues, warnings, Penalised(issues, 15, warnings, 5))

(* The findings of one pass of the loop of checkEndpointSecurity, lines    *)
(* 185-203, for the service s.                                             *)
RECURSIVE SuspiciousWarnings(_, _, _)
SuspiciousWarnings(url, name, i) ==
    IF i > Len(SUSPICIOUS_DOMAINS) THEN <<>>
    ELSE (IF includes(url, SUSPICIOUS_DOMAINS[i])
          THEN <<"[" \o name \o "] Uses suspicious domain: " \o SUSPICIOUS_DOMAINS[i]>>
          ELSE <<>>)
         \o SuspiciousWarnings(url, name, i + 1)

EndpointIssues(s) ==
    LET url  == Or(Get(s, "endpoint"), JStr("")).s
        name == Or(Get(s, "name"), JStr("unnamed")).s
    IN  IF startsWith(url, "http://") /\ ~includes(url, "localhost")
           /\ ~includes(url, "127.0.0.1")
        THEN <<"[" \o name \o "] Uses HTTP instead of HTTPS - traffic can be intercepted">>
        ELSE <<>>

EndpointWarnings(s) ==
    LET url  == Or(Get(s, "endpoint"), JStr("")).s
        name == Or(Get(s, "name"), JStr("unnamed")).s
    IN  SuspiciousWarnings(url, name, 1)
        \o (IF TestRawIp(url)
            THEN <<"[" \o name \o "] Uses raw IP address instead of domain">>
            ELSE <<>>)

RECURSIVE EndpointLoopIssues(_, _)
EndpointLoopIssues(a, i) ==
    IF i > Len(a) THEN <<>> ELSE EndpointIssues(a[i]) \o EndpointLoopIssues(a, i + 1)

RECURSIVE EndpointLoopWarnings(_, _)
EndpointLoopWarnings(a, i) ==
    IF i > Len(a) THEN <<>> ELSE EndpointWarnings(a[i]) \o EndpointLoopWarnings(a, i + 1)

(* The check reading metadata.services without the ?. of line 182.         *)
checkEndpointSecurityNoOptional(metadata) ==
    IF metadata.t \in {"undefined", "null"} THEN Threw("TypeError")
    ELSE LET services == Get(metadata, "services")
         IN  IF ~Truthy(services) THEN Returned(<<>>, <<>>, 100)
             ELSE IF ~IsIterable(services) THEN Threw("TypeError")
             ELSE LET issues   == EndpointLoopIssues(Elements(services), 1)
                      warnings == EndpointLoopWarnings(Elements(services), 1)
                  IN  Returned(issues, warnings, Penalised(issues, 20, warnings, 10))

checkEndpointSecurity(metadata) ==
    LET services == OptGet(metadata, "services")
    IN  IF ~Truthy(services) THEN Returned(<<>>, <<>>, 100)
        ELSE IF ~IsIterable(services) THEN Threw("TypeError")
        ELSE LET issues   == EndpointLoopIssues(Elements(services), 1)
                 warnings == EndpointLoopWarnings(Elements(services), 1)
             IN  Returned(issues, warnings, Penalised(issues, 20, warnings, 10))

RECURSIVE PhishingIssues(_, _)
PhishingIssues(text, i) ==
    IF i > Len(PHISHING_PATTERNS) THEN <<>>
    ELSE (IF TestDotStar(text, PHISHING_PATTERNS[i].a, PHISHING_PATTERNS[i].b)
          THEN <<"Phishing pattern detected: " \o PHISHING_PATTERNS[i].source>>
          ELSE <<>>)
         \o PhishingIssues(text, i + 1)

(* The check with the two includes tests of lines 227-233 applied to the   *)
(* text as serialized; the patterns, which carry the i flag, still match   *)
(* in any case.                                                            *)
checkContentSafetyAsWritten(metadata) ==
    IF ~Truthy(metadata) THEN Returned(<<>>, <<>>, 100)
    ELSE
    LET textToCheck == stringify(metadata)
        issues ==
            PhishingIssues(toLowerCase(textToCheck), 1)
            \o (IF includes(textToCheck, "<script") \/ includes(textToCheck, "javascript:")
                THEN <<"Contains embedded JavaScript - potential XSS">> ELSE <<>>)
            \o (IF includes(textToCheck, "data:text/html")
                THEN <<"Contains data:text/html URI - potential phishing page">>
                ELSE <<>>)
        warnings == <<>>
    IN  Returned(issues, warnings, Penalised(issues, 25, warnings, 10))

(* Lines 212-239.                                                          *)
checkContentSafety(metadata) ==
    IF ~Truthy(metadata) THEN Returned(<<>>, <<>>, 100)
    ELSE
    LET textToCheck == toLowerCase(stringify(metadata))
        issues ==
            PhishingIssues(textToCheck, 1)
            \o (IF includes(textToCheck, "<script") \/ includes(textToCheck, "javascript:")
                THEN <<"Contains embedded JavaScript - potential XSS">> ELSE <<>>)
            \o (IF includes(textToCheck, "data:text/html")
                THEN <<"Contains data:text/html URI - potential phishing page">>
                ELSE <<>>)
        warnings == <<>>
    IN  Returned(issues, warnings, Penalised(issues, 25, warnings, 10))

(* The check without owner.toLowerCase().                                  *)
checkOwnerReputationCaseSensitive(owner) ==
    LET issues ==
            IF owner \in KNOWN_BLACKLISTED_ADDRESSES
            THEN <<"Owner address is on known blacklist (sanctioned/malicious)">>
            ELSE <<>>
        warnings == <<>>
    IN  Returned(issues, warnings, MathMax(0, 100 - Len(issues) * 50))

checkOwnerReputation(owner) ==
    LET issues ==
            IF toLowerCase(owner) \in KNOWN_BLACKLISTED_ADDRESSES
            THEN <<"Owner address is on known blacklist (sanctioned/malicious)">>
            ELSE <<>>
        warnings == <<>>
    IN  Returned(issues, warnings, Penalised(issues, 50, warnings, 0))

(* The sum with the weights of content and reputation exchanged.           *)
AuditOverallExchanged(schema, endpoint, content, reputation) ==
    MathRound(FAdd(FAdd(FAdd(FMulInt(W025, schema), FMulInt(W030, endpoint)),
                        FMulInt(W015, content)),
                   FMulInt(W030, reputation)))

(* Math.round(schema*0.25 + endpoint*0.30 + content*0.30 + reputation*0.15) *)
AuditOverall(schema, endpoint, content, reputation) ==
    MathRound(FAdd(FAdd(FAdd(FMulInt(W025, schema), FMulInt(W030, endpoint)),
                        FMulInt(W030, content)),
                   FMulInt(W015, reputation)))

(* The thresholds compared with <= instead of <.                           *)
AuditRiskLevelInclusive(overallScore) ==
    IF overallScore <= 50 THEN "HIGH"
    ELSE IF overallScore <= 75 THEN "MEDIUM"
    ELSE "LOW"

AuditRiskLevel(overallScore) ==
    IF overallScore < 50 THEN "HIGH"
    ELSE IF overallScore < 75 THEN "MEDIUM"
    ELSE "LOW"

Tagged(texts, category, severity) ==
    [i \in 1..Len(texts) |->
        [category |-> category, text |-> texts[i], severity |-> severity]]

(* A resolved identity, as getAgentProfile returns it, and the outcome of  *)
(* getAgentProfile when the owner lookup reverts.                          *)
Profile(owner, metadata) == [ok |-> TRUE, owner |-> owner, metadata |-> metadata]
Reverted == [ok |-> FALSE, error |-> "ContractFunctionExecutionError"]

(* The four checks of auditAgent, lines 257-260, on a resolved identity.   *)
AuditChecks(profile) ==
    [schema     |-> checkMetadataSchema(profile.metadata),
     endpoint   |-> checkEndpointSecurity(profile.metadata),
     content    |-> checkContentSafety(profile.metadata),
     reputation |-> checkOwnerReputation(profile.owner)]

(* The report with the findings merged check by check: the issues and the *)
(* warnings of one check, then those of the next.                          *)
AuditReportByCheck(profile, checks) ==
    LET schema     == checks.schema
        endpoint   == checks.endpoint
        content    == checks.content
        reputation == checks.reputation
        overallScore == AuditOverall(schema.score, endpoint.score,
                                     content.score, reputation.score)
    IN  [ok        |-> TRUE,
         name      |-> Or(OptGet(profile.metadata, "name"), JStr("Unknown")),
         owner     |-> profile.owner,
         scores    |-> [schema     |-> schema.score,
                        endpoint   |-> endpoint.score,
                        content    |-> content.score,
                        reputation |-> reputation.score,
                        overall    |-> overallScore],
         riskLevel |-> AuditRiskLevel(overallScore),
         findings  |->
             Tagged(schema.issues, "Schema", "critical")
             \o Tagged(schema.warnings, "Schema", "warning")
             \o Tagged(endpoint.issues, "Endpoint", "critical")
             \o Tagged(endpoint.warnings, "Endpoint", "warning")
             \o Tagged(content.issues, "Content", "critical")
             \o Tagged(content.warnings, "Content", "warning")
             \o Tagged(reputation.issues, "Reputation", "critical")
             \o Tagged(reputation.warnings, "Reputation", "warning")]

(* auditAgent, lines 262-295, from the results of its four checks.         *)
AuditReport(profile, checks) ==
    LET schema     == checks.schema
        endpoint   == checks.endpoint
        content    == checks.content
        reputation == checks.reputation
        overallScore == AuditOverall(schema.score, endpoint.score,
                                     content.score, reputation.score)
    IN  [ok        |-> TRUE,
         name      |-> Or(OptGet(profile.metadata, "name"), JStr("Unknown")),
         owner     |-> profile.owner,
         scores    |-> [schema     |-> schema.score,
                        endpoint   |-> endpoint.score,
                        content    |-> content.score,
                        reputation |-> reputation.score,
                        overall    |-> overallScore],
         riskLevel |-> AuditRiskLevel(overallScore),
         findings  |->
             Tagged(schema.issues, "Schema", "critical")
             \o Tagged(endpoint.issues, "Endpoint", "critical")
             \o Tagged(content.issues, "Content", "critical")
             \o Tagged(reputation.issues, "Reputation", "critical")
             \o Tagged(schema.warnings, "Schema", "warning")
             \o Tagged(endpoint.warnings, "Endpoint", "warning")
             \o Tagged(content.warnings, "Content", "warning")
             \o Tagged(reputation.warnings, "Reputation", "warning")]

(* auditAgent once getAgentProfile has settled with the outcome profile:   *)
(* the report it resolves with, or the error it rejects with. A check that *)
(* throws ends auditAgent at that check.                                   *)
auditAgent(profile) ==
    IF ~profile.ok THEN Threw(profile.error)
    ELSE LET checks == AuditChecks(profile)
         IN  IF ~checks.endpoint.ok THEN checks.endpoint
             ELSE AuditReport(profile, checks)

----------------------------------------------------------------------------
(* The identities the operations are applied to.                           *)

MaxServices == 6

(* An address that differs from the first deny-listed one in its last     *)
(* character only.                                                         *)
NearOwner == "0xd90e2f925DA726b50C4Ed8D0Fb90Ad053324F31c"

Owners == {TornadoRouter1, toLowerCase(TornadoRouter2), NearOwner}

LongName == Repeat("a", 201)
Desc60   == "An autonomous agent that answers questions about ERC-8004."
LureTwo  == "Claim your FREE airdrop token now"
LureAll  == "MetaMask: connect wallet to approve, claim airdrop, free token, "
            \o "URGENT action <SCRIPT src=x> data:text/html,hi"

Names == <<UNDEF, JStr("Agent"), JStr(LongName)>>
Descriptions == <<UNDEF, JStr(Desc60), JStr(LureTwo), JStr(LureAll)>>

Service(name, endpoint) == JObj([name |-> name, endpoint |-> endpoint])

ServiceEntries ==
    << Service(JStr("api"),   JStr("https://agent.example.com/api")),
       Service(JStr("web"),   JStr("http://agent.example.com")),
       Service(UNDEF,         UNDEF),
       Service(JStr("mcp"),   JStr("http://0.0.0.0:8080/mcp")),
       Service(JStr("chat"),  JStr("https://chat.company.io/a2a")),
       Service(JStr("local"), JStr("http://localhost:3000")),
       Service(JStr("hook"),  JStr("http://hooks.example.net/cb?from=localhost")),
       Service(JStr("idle"),  UNDEF) >>

(* n services: the entries start, start + stride, ... of ServiceEntries,   *)
(* cyclically.                                                             *)
ServiceList(start, stride, n) ==
    JArr([k \in 1..n |->
            ServiceEntries[((start - 1 + stride * (k - 1)) % Len(ServiceEntries)) + 1]])

(* Values of services that are not arrays: none, a number, a string, and   *)
(* a single service that is not wrapped in an array.                       *)
NotArrays == <<UNDEF, JNum(5), JStr("none"),
               Service(JStr("api"), JStr("https://agent.example.com/api"))>>

(* A metadata document; extras holds its fields active, x402Support, image *)
(* and version.                                                            *)
DocumentWith(name, description, services, extras) ==
    JObj([name |-> name, description |-> description, services |-> services,
          active |-> extras.active, x402Support |-> extras.x402Support,
          image |-> extras.image, version |-> extras.version])

NoExtras == [active |-> UNDEF, x402Support |-> UNDEF, image |-> UNDEF, version |-> UNDEF]

Document(name, description, services) ==
    DocumentWith(name, description, services, NoExtras)

----------------------------------------------------------------------------
(* scan.js: the batch scan.                                                *)

MaxBatch == 3

GoodDocument == Document(JStr("Agent"), JStr(Desc60), ServiceList(1, 0, 2))

(* What getAgentProfile settles with for the agents of the registry: two   *)
(* identities of low risk, one whose owner lookup reverts, one of medium   *)
(* risk, one of high risk, and one whose services are not iterable.        *)
Registry ==
    << Profile(NearOwner, GoodDocument),
       Reverted,
       Profile(TornadoRouter1, JNull),
       Profile(NearOwner, Document(UNDEF, JStr(LureAll), ServiceList(3, 0, MaxServices))),
       Profile(NearOwner, Document(JStr("Agent"), JStr(Desc60), JNum(5))),
       Profile(toLowerCase(TornadoRouter2), GoodDocument) >>

AgentIds == 1..Len(Registry)

(* The registration event of an agent: its id and the address it was      *)
(* minted to.                                                              *)
Registration(id) ==
    [agentId |-> id,
     owner   |-> IF Registry[id].ok THEN Registry[id].owner ELSE NearOwner]

(* The sequences getRecentRegistrations resolves with: at most MaxBatch    *)
(* registrations of distinct agents, in any order.                         *)
RegistrationLists ==
    UNION {{[k \in 1..n |-> Registration(ids[k])] :
               ids \in {f \in [1..n -> AgentIds] :
                           \A a, b \in 1..n : a # b => f[a] # f[b]}} :
           n \in 0..MaxBatch}

NewResults == [scanned |-> 0, healthy |-> 0, warnings |-> 0, critical |-> 0, agents |-> <<>>]

CriticalCount(findings) ==
    Cardinality({k \in 1..Len(findings) : findings[k].severity = "critical"})

(* The summary scanRecent keeps of one audit, lines 351-359.               *)
ScanSummary(reg, outcome) ==
    [agentId          |-> reg.agentId,
     name             |-> outcome.name,
     owner            |-> reg.owner,
     score            |-> outcome.scores.overall,
     riskLevel        |-> outcome.riskLevel,
     findingsCount    |-> Len(outcome.findings),
     criticalFindings |-> CriticalCount(outcome.findings)]

(* The loop with the first "else" of line 348 lost: a LOW audit is counted *)
(* as healthy and as critical.                                             *)
ScanIterationLostElse(results, reg, outcome) ==
    IF ~outcome.ok THEN results
    ELSE [scanned  |-> results.scanned + 1,
          healthy  |-> results.healthy + (IF outcome.riskLevel = "LOW" THEN 1 ELSE 0),
          warnings |-> results.warnings + (IF outcome.riskLevel = "MEDIUM" THEN 1 ELSE 0),
          critical |-> results.critical + (IF outcome.riskLevel # "MEDIUM" THEN 1 ELSE 0),
          agents   |-> Append(results.agents, ScanSummary(reg, outcome))]

(* The loop with results.scanned++ moved in front of the audit: an         *)
(* identity is counted whether or not its audit resolves.                  *)
ScanIterationCountsFirst(results, reg, outcome) ==
    IF ~outcome.ok THEN [results EXCEPT !.scanned = @ + 1]
    ELSE [scanned  |-> results.scanned + 1,
          healthy  |-> results.healthy + (IF outcome.riskLevel = "LOW" THEN 1 ELSE 0),
          warnings |-> results.warnings
                           + (IF outcome.riskLevel # "LOW" /\ outcome.riskLevel = "MEDIUM"
                              THEN 1 ELSE 0),
          critical |-> results.critical
                           + (IF outcome.riskLevel # "LOW" /\ outcome.riskLevel # "MEDIUM"
                              THEN 1 ELSE 0),
          agents   |-> Append(results.agents, ScanSummary(reg, outcome))]

(* The loop with the summary put in front of the list (unshift) in place   *)
(* of the push of line 351.                                                *)
ScanIterationUnshift(results, reg, outcome) ==
    IF ~outcome.ok THEN results
    ELSE [scanned  |-> results.scanned + 1,
          healthy  |-> results.healthy + (IF outcome.riskLevel = "LOW" THEN 1 ELSE 0),
          warnings |-> results.warnings
                           + (IF outcome.riskLevel # "LOW" /\ outcome.riskLevel = "MEDIUM"
                              THEN 1 ELSE 0),
          critical |-> results.critical
                           + (IF outcome.riskLevel # "LOW" /\ outcome.riskLevel # "MEDIUM"
                              THEN 1 ELSE 0),
          agents   |-> <<ScanSummary(reg, outcome)>> \o results.agents]

(* One pass of the loop of scanRecent, lines 342-365, for the registration *)
(* reg whose audit settled with outcome: the results after it. A rejected  *)
(* audit leaves lines 346-362 unexecuted.                                  *)
ScanIteration(results, reg, outcome) ==
    IF ~outcome.ok THEN results
    ELSE [scanned  |-> results.scanned + 1,
          healthy  |-> results.healthy + (IF outcome.riskLevel = "LOW" THEN 1 ELSE 0),
          warnings |-> results.warnings
                           + (IF outcome.riskLevel # "LOW" /\ outcome.riskLevel = "MEDIUM"
                              THEN 1 ELSE 0),
          critical |-> results.critical
                           + (IF outcome.riskLevel # "LOW" /\ outcome.riskLevel # "MEDIUM"
                              THEN 1 ELSE 0),
          agents   |-> Append(results.agents, ScanSummary(reg, outcome))]

(* What one pass writes to stdout after "Auditing agent #id...": the score *)
(* of the audit, or the message of the error caught at line 363.           *)
ScanNotice(reg, outcome) ==
    IF outcome.ok
    THEN [agentId |-> reg.agentId, error |-> "", score |-> outcome.scores.overall]
    ELSE [agentId |-> reg.agentId, error |-> outcome.error, score |-> -1]

----------------------------------------------------------------------------
(* verify.js: the endpoint probe and the verification of one identity.     *)

TIMEOUT_MS == 8000

(* What the network does with one request: a response with a status code   *)
(* after ms milliseconds, a rejection of fetch with an error after ms      *)
(* milliseconds, or nothing at all.                                        *)
Responds(status, statusText, ms) ==
    [kind |-> "response", status |-> status, statusText |-> statusText, ms |-> ms]
Rejects(name, message, ms) ==
    [kind |-> "error", name |-> name, message |-> message, ms |-> ms]
Stalls == [kind |-> "stall"]

(* The error fetch rejects with when its signal is aborted.                *)
AbortError == [name |-> "AbortError", message |-> "This operation was aborted"]

(* The result of checkEndpoint for a response, lines 20-28, and for an     *)
(* error caught at line 29, lines 30-37; start and now are the two         *)
(* readings of Date.now().                                                 *)
(* The result for a response with the upper limit compared with <=.        *)
ProbeResponseInclusive(url, protocol, start, res, now) ==
    [url        |-> url,
     protocol   |-> protocol,
     status     |-> res.status,
     ok         |-> res.status >= 200 /\ res.status <= 400,
     latency    |-> now - start,
     statusText |-> res.statusText]

ProbeResponse(url, protocol, start, res, now) ==
    [url        |-> url,
     protocol   |-> protocol,
     status     |-> res.status,
     ok         |-> res.status >= 200 /\ res.status < 400,
     latency    |-> now - start,
     statusText |-> res.statusText]

ProbeFailure(url, protocol, start, e, now) ==
    [url      |-> url,
     protocol |-> protocol,
     status   |-> 0,
     ok       |-> FALSE,
     latency  |-> now - start,
     error    |-> IF e.name = "AbortError" THEN "Timeout" ELSE e.message]

(* checkEndpoint(url, protocol) started at start, once the network has     *)
(* done outcome; a request that stalls is aborted by the timer of line 10. *)
checkEndpoint(url, protocol, start, outcome) ==
    CASE outcome.kind = "response" ->
             ProbeResponse(url, protocol, start, outcome, start + outcome.ms)
      [] outcome.kind = "error" ->
             ProbeFailure(url, protocol, start, outcome, start + outcome.ms)
      [] outcome.kind = "stall" ->
             ProbeFailure(url, protocol, start, AbortError, start + TIMEOUT_MS)

detectProtocol(service) ==
    LET name     == toLowerCase(Or(Get(service, "name"), JStr("")).s)
        endpoint == toLowerCase(Or(Get(service, "endpoint"), JStr("")).s)
    IN  IF includes(name, "mcp") \/ includes(endpoint, "mcp") THEN "mcp"
        ELSE IF includes(name, "a2a") \/ includes(endpoint, "a2a") THEN "a2a"
        ELSE "http"

(* The request checkEndpoint sends, lines 12-17.                           *)
ProbeRequest(url, protocol) ==
    [url    |-> url,
     method |-> IF protocol = "mcp" THEN "POST" ELSE "GET",
     body   |-> IF protocol = "mcp"
                THEN "{\"jsonrpc\":\"2.0\",\"method\":\"initialize\",\"id\":1}"
                ELSE ""]

(* results as verifyAgent creates it, lines 51-59.                         *)
NewVerification(profile) ==
    [ok            |-> TRUE,
     name          |-> Or(OptGet(profile.metadata, "name"), JStr("Unknown")),
     owner         |-> profile.owner,
     endpoints     |-> <<>>,
     overallStatus |-> "unknown",
     score         |-> 0]

(* !profile.metadata?.services?.length, line 61 *)
NoServices(profile) ==
    ~Truthy(OptGet(OptGet(profile.metadata, "services"), "length"))

(* Lines 71-72: the result of a probe, named after its service.            *)
Named(check, service) ==
    [serviceName |-> Or(Get(service, "name"), JStr("unnamed")).s] @@ check

AliveCount(endpoints) ==
    Cardinality({k \in 1..Len(endpoints) : endpoints[k].ok})


(* Math.round((alive / total) * 100), line 84 *)
DegradedScore(alive, total) == MathRound(FMulInt(FDivInt(alive, total), 100))

(* Lines 76-88: results once the loop has counted alive reachable          *)
(* endpoints.                                                              *)
Classified(results, alive) ==
    LET total == Len(results.endpoints)
    IN  IF total = 0 THEN [results EXCEPT !.overallStatus = "no-endpoints"]
        ELSE IF alive = total
             THEN [results EXCEPT !.overallStatus = "healthy", !.score = 100]
        ELSE IF alive > 0
             THEN [results EXCEPT !.overallStatus = "degraded",
                                  !.score = DegradedScore(alive, total)]
        ELSE [results EXCEPT !.overallStatus = "offline", !.score = 0]

(* The loop of lines 67-74 from the service at k on, the network doing     *)
(* outcomes[j] with the j-th request: the endpoints it collects.           *)
RECURSIVE VerifyLoop(_, _, _, _, _)
VerifyLoop(services, k, outcomes, endpoints, now) ==
    IF k > Len(services) THEN endpoints
    ELSE LET service == services[k]
         IN  IF ~Truthy(Get(service, "endpoint"))
             THEN VerifyLoop(services, k + 1, outcomes, endpoints, now)
             ELSE LET check == checkEndpoint(Get(service, "endpoint").s,
                                             detectProtocol(service), now,
                                             outcomes[Len(endpoints) + 1])
                  IN  VerifyLoop(services, k + 1, outcomes,
                                 Append(endpoints, Named(check, service)),
                                 now + check.latency)

(* verifyAgent, lines 49-91, once getAgentProfile has settled with profile *)
(* and with the network doing outcomes: the results it resolves with, or   *)
(* the error it rejects with.                                              *)
verifyAgent(profile, outcomes) ==
    IF ~profile.ok THEN Threw(profile.error)
    ELSE IF NoServices(profile)
         THEN [NewVerification(profile) EXCEPT !.overallStatus = "no-endpoints"]
    ELSE IF ~IsIterable(Get(profile.metadata, "services")) THEN Threw("TypeError")
    ELSE LET endpoints == VerifyLoop(Elements(Get(profile.metadata, "services")),
                                     1, outcomes, <<>>, 0)
         IN  Classified([NewVerification(profile) EXCEPT !.endpoints = endpoints],
                        AliveCount(endpoints))

(* The network: the two hosts of the fleet answer every request the same   *)
(* way, every other host may answer with any of these outcomes.            *)
UpUrl == "https://up.fleet.example/health"
DownUrl == "https://down.fleet.example/health"

Behaviours(url) ==
    IF url = UpUrl THEN {Responds(200, "OK", 40)}
    ELSE IF url = DownUrl THEN {Responds(503, "Service Unavailable", 40)}
    ELSE {Responds(200, "OK", 120),
          Responds(399, "", 120),
          Responds(400, "Bad Request", 120),
          Rejects("TypeError", "fetch failed", 350),
          Stalls}

MaxProbed == 3
FleetSize == 40

(* A fleet of FleetSize services of which the first up are served by the   *)
(* host that answers 200 and the others by the host that answers 503.      *)
Fleet(up) ==
    JArr([k \in 1..FleetSize |->
            IF k <= up THEN Service(JStr("node"), JStr(UpUrl))
            ELSE Service(JStr("node"), JStr(DownUrl))])

----------------------------------------------------------------------------
(* score.js: the reputation score of one identity.                         *)

(* a > n for a value a and a number n: undefined compares false.           *)
Greater(a, n) == a.t = "number" /\ a.n > n

(* The rubric with the two flags of lines 63-64 tested for truth in place  *)
(* of !== undefined.                                                       *)
scoreMetadataCompletenessTruthy(metadata) ==
    IF ~Truthy(metadata) THEN 0
    ELSE LET description == Get(metadata, "description")
             length == OptGet(Get(metadata, "services"), "length")
         IN  MathMin((IF Truthy(Get(metadata, "name")) THEN 15 ELSE 0)
                     + (IF Truthy(description) THEN 15 ELSE 0)
                     + (IF Truthy(description) /\ Greater(Get(description, "length"), 50)
                        THEN 10 ELSE 0)
                     + (IF Truthy(Get(metadata, "active")) THEN 10 ELSE 0)
                     + (IF Truthy(Get(metadata, "x402Support")) THEN 10 ELSE 0)
                     + (IF Greater(length, 0) THEN 20 ELSE 0)
                     + (IF Greater(length, 1) THEN 10 ELSE 0)
                     + (IF Truthy(Get(metadata, "image")) THEN 5 ELSE 0)
                     + (IF Truthy(Get(metadata, "version")) THEN 5 ELSE 0),
                     100)

(* Lines 57-73.                                                            *)
scoreMetadataCompleteness(metadata) ==
    IF ~Truthy(metadata) THEN 0
    ELSE LET description == Get(metadata, "description")
             length == OptGet(Get(metadata, "services"), "length")
         IN  MathMin((IF Truthy(Get(metadata, "name")) THEN 15 ELSE 0)
                     + (IF Truthy(description) THEN 15 ELSE 0)
                     + (IF Truthy(description) /\ Greater(Get(description, "length"), 50)
                        THEN 10 ELSE 0)
                     + (IF Get(metadata, "active") # UNDEF THEN 10 ELSE 0)
                     + (IF Get(metadata, "x402Support") # UNDEF THEN 10 ELSE 0)
                     + (IF Greater(length, 0) THEN 20 ELSE 0)
                     + (IF Greater(length, 1) THEN 10 ELSE 0)
                     + (IF Truthy(Get(metadata, "image")) THEN 5 ELSE 0)
                     + (IF Truthy(Get(metadata, "version")) THEN 5 ELSE 0),
                     100)

(* Line 83-85: verification.score, or 0 when verifyAgent rejected.         *)
HealthScore(verification) == IF verification.ok THEN verification.score ELSE 0

(* getRegistrationAge, lines 18-41: (Date.now() / 1000 - timestamp) /      *)
(* 86400 of line 36 for a registration whose block is elapsed whole        *)
(* seconds old. When the lookup fails or finds no log the function returns *)
(* 0 (lines 31, 38-40), which is the value for elapsed = 0.                *)
getRegistrationAge(elapsed) == FDivInt(elapsed, 86400)

(* Math.min(100, Math.round((ageDays / 90) * 100)), line 91.               *)
AgeScore(ageDays) == MathMin(100, MathRound(FMulInt(FDiv(ageDays, 90), 100)))

(* Math.round(ageDays * 10) / 10, line 129.                                *)
RoundedAge(ageDays) == FDivInt(MathRound(FMulInt(ageDays, 10)), 10)

(* Math.round(Math.log10(n) * 33) in binary64: each pair <<n, r>> gives    *)
(* the least n >= 1 for which the value is r, up to the first n for which  *)
(* it is 100.                                                              *)
RoundLog10Times33 ==
    << <<1, 0>>, <<2, 10>>, <<3, 16>>, <<4, 20>>, <<5, 23>>, <<6, 26>>,
       <<7, 28>>, <<8, 30>>, <<9, 31>>, <<10, 33>>, <<11, 34>>, <<12, 36>>,
       <<13, 37>>, <<14, 38>>, <<15, 39>>, <<16, 40>>, <<17, 41>>,
       <<19, 42>>, <<20, 43>>, <<21, 44>>, <<23, 45>>, <<24, 46>>,
       <<26, 47>>, <<28, 48>>, <<30, 49>>, <<32, 50>>, <<34, 51>>,
       <<37, 52>>, <<39, 53>>, <<42, 54>>, <<45, 55>>, <<49, 56>>,
       <<52, 57>>, <<56, 58>>, <<60, 59>>, <<64, 60>>, <<69, 61>>,
       <<74, 62>>, <<79, 63>>, <<84, 64>>, <<91, 65>>, <<97, 66>>,
       <<104, 67>>, <<112, 68>>, <<120, 69>>, <<128, 70>>, <<137, 71>>,
       <<147, 72>>, <<158, 73>>, <<169, 74>>, <<181, 75>>, <<195, 76>>,
       <<209, 77>>, <<224, 78>>, <<240, 79>>, <<257, 80>>, <<276, 81>>,
       <<295, 82>>, <<317, 83>>, <<340, 84>>, <<364, 85>>, <<390, 86>>,
       <<419, 87>>, <<449, 88>>, <<481, 89>>, <<516, 90>>, <<553, 91>>,
       <<593, 92>>, <<636, 93>>, <<682, 94>>, <<731, 95>>, <<784, 96>>,
       <<840, 97>>, <<901, 98>>, <<966, 99>>, <<1036, 100>> >>

(* Math.min(100, Math.round(Math.log10(Math.max(1, txCount)) * 33)),       *)
(* line 96                                                                 *)
ActivityScore(txCount) ==
    LET n == MathMax(1, txCount)
        last == CHOOSE k \in 1..Len(RoundLog10Times33) :
                    /\ RoundLog10Times33[k][1] <= n
                    /\ \A j \in 1..Len(RoundLog10Times33) :
                          RoundLog10Times33[j][1] <= n => j <= k
    IN  MathMin(100, RoundLog10Times33[last][2])

(* Math.round(metadata*0.25 + health*0.30 + age*0.20 + activity*0.25),     *)
(* lines 101-106                                                           *)
ScoreOverall(metadata, health, age, activity) ==
    MathRound(FAdd(FAdd(FAdd(FMulInt(W025, metadata), FMulInt(W030, health)),
                        FMulInt(W020, age)),
                   FMulInt(W025, activity)))

(* The tier with the last else of line 113 lost: the initial value of line *)
(* 108 is left in place below 25.                                          *)
ScoreTierLostElse(overall) ==
    IF overall >= 90 THEN ":trophy: Platinum"
    ELSE IF overall >= 75 THEN ":1st_place_medal: Gold"
    ELSE IF overall >= 50 THEN ":2nd_place_medal: Silver"
    ELSE IF overall >= 25 THEN ":3rd_place_medal: Bronze"
    ELSE "Unknown"

(* Lines 108-113. The badge in front of each name is an emoji in the       *)
(* source and is written here as its short name. Every branch overwrites   *)
(* the initial value 'Unknown' of line 108.                                *)
ScoreTier(overall) ==
    IF overall >= 90 THEN ":trophy: Platinum"
    ELSE IF overall >= 75 THEN ":1st_place_medal: Gold"
    ELSE IF overall >= 50 THEN ":2nd_place_medal: Silver"
    ELSE IF overall >= 25 THEN ":3rd_place_medal: Bronze"
    ELSE ":white_circle: Unrated"

(* scoreAgent without the try / catch of lines 81-86: a rejection of       *)
(* verifyAgent rejects scoreAgent.                                         *)
scoreAgentNoCatch(profile, verification, ageDays, txCount) ==
    IF ~profile.ok THEN Threw(profile.error)
    ELSE IF ~verification.ok THEN Threw(verification.error)
    ELSE LET ageScore      == AgeScore(ageDays)
             activityScore == ActivityScore(txCount)
             metadataScore == scoreMetadataCompleteness(profile.metadata)
             overall == ScoreOverall(metadataScore, verification.score, ageScore,
                                     activityScore)
         IN  [ok      |-> TRUE,
              name    |-> Or(OptGet(profile.metadata, "name"), JStr("Unknown")),
              owner   |-> profile.owner,
              tier    |-> ScoreTier(overall),
              scores  |-> [metadata |-> metadataScore,
                           health   |-> verification.score,
                           age      |-> ageScore,
                           activity |-> activityScore,
                           overall  |-> overall],
              details |-> [ageDays       |-> RoundedAge(ageDays),
                           ownerTxCount  |-> txCount,
                           servicesCount |->
                               Or(OptGet(OptGet(profile.metadata, "services"), "length"),
                                  JNum(0))]]

(* scoreAgent, lines 75-135, once getAgentProfile has settled with         *)
(* profile, verifyAgent with verification, getRegistrationAge with ageDays *)
(* and getOwnerActivity with a transaction count of txCount: the report it *)
(* resolves with, or the error it rejects with. The balance of the owner,  *)
(* which no score reads, is left out of details.                           *)
scoreAgent(profile, verification, ageDays, txCount) ==
    IF ~profile.ok THEN Threw(profile.error)
    ELSE LET healthScore   == HealthScore(verification)
             ageScore      == AgeScore(ageDays)
             activityScore == ActivityScore(txCount)
             metadataScore == scoreMetadataCompleteness(profile.metadata)
             overall == ScoreOverall(metadataScore, healthScore, ageScore, activityScore)
         IN  [ok      |-> TRUE,
              name    |-> Or(OptGet(profile.metadata, "name"), JStr("Unknown")),
              owner   |-> profile.owner,
              tier    |-> ScoreTier(overall),
              scores  |-> [metadata |-> metadataScore,
                           health   |-> healthScore,
                           age      |-> ageScore,
                           activity |-> activityScore,
                           overall  |-> overall],
              details |-> [ageDays       |-> RoundedAge(ageDays),
                           ownerTxCount  |-> txCount,
                           servicesCount |->
                               Or(OptGet(OptGet(profile.metadata, "services"), "length"),
                                  JNum(0))]]

(* The inputs of the score.                                                *)
SomeExtras ==
    [active |-> JBool(FALSE), x402Support |-> JBool(TRUE), image |-> UNDEF, version |-> UNDEF]
AllExtras ==
    [active |-> JBool(TRUE), x402Support |-> JBool(FALSE),
     image |-> JStr("https://agent.example.com/logo.png"), version |-> JStr("1.0.0")]
Extras == <<NoExtras, SomeExtras, AllExtras>>

ScoreNames == <<UNDEF, JStr("Agent")>>
ScoreDescriptions == <<UNDEF, JStr("Answers questions."), JStr(Desc60)>>

(* Ages of the registration in seconds (0, 2, 45, 51.75 and 200 days) and  *)
(* transaction counts of the owner.                                        *)
AgeSeconds == {0, 172800, 3888000, 4471200, 17280000}
TxCounts == {0, 2, 10, 2000}

(* The network answering the first up requests with 200 and leaving the    *)
(* others unanswered.                                                      *)
FirstUp(up, n) ==
    [j \in 1..n |-> IF j <= up THEN Responds(200, "OK", 120) ELSE Stalls]

----------------------------------------------------------------------------
(* pc is the operation that has run; profile is the identity it was given, *)
(* as resolved; checks holds the results of the four checks of auditAgent  *)
(* (its locals schema, endpoint, content, reputation) and audit what       *)
(* auditAgent settled with.                                                *)
(* scan holds the locals of scanRecent: the registrations, the index i of  *)
(* the one the loop is at and the results; stdout is what the scan has     *)
(* written about the audits.                                               *)
(* verify holds the locals of verifyAgent: the services it iterates, the   *)
(* index k of the one the loop is at, alive and results; probe is the call *)
(* of checkEndpoint that awaits fetch; timers are the armed timers, each   *)
(* with the controller it aborts; aborted are the controllers that have    *)
(* been aborted; now is what Date.now() reads; wire is the network's side  *)
(* of the verification, the requests it has received in order, each with   *)
(* the time it was sent and how and when it ended.                         *)
(* score holds what scoreAgent awaited (the verification, the age and the  *)
(* transaction count) and the report it settled with.                      *)
VARIABLES pc, profile, checks, audit, scan, stdout,
          verify, probe, timers, aborted, now, wire, score

vars == <<pc, profile, checks, audit, scan, stdout,
          verify, probe, timers, aborted, now, wire, score>>

auditVars == <<profile, checks, audit>>
scanVars == <<scan, stdout>>
verifyVars == <<verify, probe, timers, aborted, now, wire>>

Nothing == [none |-> TRUE]

Init ==
    /\ pc = "idle"
    /\ profile = Nothing
    /\ checks = Nothing
    /\ audit = Nothing
    /\ scan = Nothing
    /\ stdout = <<>>
    /\ verify = Nothing
    /\ probe = Nothing
    /\ timers = {}
    /\ aborted = {}
    /\ now = 0
    /\ wire = <<>>
    /\ score = Nothing

(* auditAgent(agentId, chain), lines 254-296, for an identity that         *)
(* resolves to p.                                                          *)
AuditAgent(p) ==
    /\ pc = "idle"
    /\ pc' = "audited"
    /\ profile' = p
    /\ IF ~p.ok
       THEN checks' = Nothing /\ audit' = Threw(p.error)
       ELSE /\ checks' = AuditChecks(p)
            /\ audit' = IF ~checks'.endpoint.ok THEN checks'.endpoint
                        ELSE AuditReport(p, checks')
    /\ UNCHANGED <<scanVars, verifyVars, score>>

AuditCall ==
    \/ AuditAgent(Reverted)
    \/ \E owner \in Owners : AuditAgent(Profile(owner, JNull))
    \/ \E owner \in Owners, n \in 1..Len(Names), d \in 1..Len(Descriptions) :
          \/ \E k \in 1..Len(NotArrays) :
                AuditAgent(Profile(owner, Document(Names[n], Descriptions[d], NotArrays[k])))
          \/ \E start \in 1..Len(ServiceEntries), c \in 1..MaxServices :
                AuditAgent(Profile(owner,
                    Document(Names[n], Descriptions[d], ServiceList(start, 0, c))))
          \/ \E c \in 0..MaxServices :
                AuditAgent(Profile(owner,
                    Document(Names[n], Descriptions[d], ServiceList(1, 1, c))))

(* The caller has consumed the result; nothing is kept between calls.      *)
Return ==
    /\ pc \in {"audited", "scanned", "scanFailed", "verified", "scored"}
    /\ pc' = "idle"
    /\ profile' = Nothing
    /\ checks' = Nothing
    /\ audit' = Nothing
    /\ scan' = Nothing
    /\ stdout' = <<>>
    /\ verify' = Nothing
    /\ probe' = Nothing
    /\ timers' = {}
    /\ aborted' = {}
    /\ now' = 0
    /\ wire' = <<>>
    /\ score' = Nothing

(* scanRecent(limit, chain), lines 329-339: getRecentRegistrations has     *)
(* resolved with regs.                                                     *)
ScanStart(regs) ==
    /\ pc = "idle"
    /\ pc' = "scanning"
    /\ scan' = [registrations |-> regs, i |-> 1, results |-> NewResults]
    /\ UNCHANGED <<auditVars, stdout, verifyVars, score>>

(* getRecentRegistrations has rejected: scanRecent rejects at line 332.    *)
ScanRegistryFails ==
    /\ pc = "idle"
    /\ pc' = "scanFailed"
    /\ scan' = Threw("HttpRequestError")
    /\ UNCHANGED <<auditVars, stdout, verifyVars, score>>

(* One pass of the loop, lines 341-366: the audit of the registration at   *)
(* i settles and the pass runs to its end.                                 *)
ScanAudit ==
    /\ pc = "scanning"
    /\ scan.i <= Len(scan.registrations)
    /\ LET reg     == scan.registrations[scan.i]
           outcome == auditAgent(Registry[reg.agentId])
       IN  /\ scan' = [scan EXCEPT !.i = @ + 1,
                                   !.results = ScanIteration(@, reg, outcome)]
           /\ stdout' = Append(stdout, ScanNotice(reg, outcome))
    /\ UNCHANGED <<pc, auditVars, verifyVars, score>>

(* The loop is over: scanRecent returns results, line 368.                 *)
ScanReturn ==
    /\ pc = "scanning"
    /\ scan.i > Len(scan.registrations)
    /\ pc' = "scanned"
    /\ UNCHANGED <<auditVars, scanVars, verifyVars, score>>

ScanCall ==
    \/ \E regs \in RegistrationLists : ScanStart(regs)
    \/ ScanRegistryFails
    \/ ScanAudit
    \/ ScanReturn

Pending == [outcome |-> [kind |-> "pending"], at |-> 0]

(* verifyAgent(agentId, chain), lines 49-65: getAgentProfile has settled   *)
(* with p.                                                                 *)
VerifyStart(p) ==
    /\ pc = "idle"
    /\ profile' = p
    /\ IF ~p.ok
       THEN /\ pc' = "verified"
            /\ verify' = [services |-> <<>>, k |-> 1, alive |-> 0,
                          results |-> Threw(p.error)]
       ELSE IF NoServices(p)
       THEN /\ pc' = "verified"
            /\ verify' = [services |-> <<>>, k |-> 1, alive |-> 0,
                          results |-> [NewVerification(p)
                                          EXCEPT !.overallStatus = "no-endpoints"]]
       ELSE /\ pc' = "verifying"
            /\ verify' = [services |-> Elements(Get(p.metadata, "services")),
                          k |-> 1, alive |-> 0, results |-> NewVerification(p)]
    /\ UNCHANGED <<checks, audit, scanVars, score, probe, timers, aborted, now, wire>>

(* Line 68: the service at k has no endpoint.                              *)
VerifySkip ==
    /\ pc = "verifying"
    /\ verify.k <= Len(verify.services)
    /\ ~Truthy(Get(verify.services[verify.k], "endpoint"))
    /\ verify' = [verify EXCEPT !.k = @ + 1]
    /\ UNCHANGED <<pc, auditVars, scanVars, score, probe, timers, aborted, now, wire>>

(* One controller for all calls, in place of one per call.                 *)
ControllerShared(k) == 0

(* Line 9: the controller created by the call of checkEndpoint for the     *)
(* service at k; every call creates its own.                               *)
Controller(k) == k

(* Lines 69-70 and 7-17: checkEndpoint reads the clock, creates the        *)
(* controller of this call, arms its timer and sends the request; the      *)
(* request carries the signal of that controller.                          *)
ProbeStart ==
    /\ pc = "verifying"
    /\ verify.k <= Len(verify.services)
    /\ LET service == verify.services[verify.k]
           url == Get(service, "endpoint")
           protocol == detectProtocol(service)
       IN  /\ Truthy(url)
           /\ probe' = [ctl |-> Controller(verify.k), start |-> now,
                        protocol |-> protocol,
                        request |-> ProbeRequest(url.s, protocol)]
           /\ timers' = timers \cup {[ctl |-> Controller(verify.k),
                                      at |-> now + TIMEOUT_MS]}
           /\ wire' = Append(wire, [request |-> ProbeRequest(url.s, protocol),
                                    signal |-> Controller(verify.k),
                                    sent |-> now, ended |-> Pending])
    /\ pc' = "probing"
    /\ UNCHANGED <<auditVars, scanVars, score, verify, aborted, now>>

(* The request in flight ends with outcome at the time at.                 *)
Ended(w, outcome, at) ==
    [w EXCEPT ![Len(w)].ended = [outcome |-> outcome, at |-> at]]

(* The loop attempting a service a second time when its probe failed: the *)
(* result is recorded and the loop stays at the service once.              *)
CollectedRetrying(v, check) ==
    LET recorded == Append(v.results.endpoints, Named(check, v.services[v.k]))
        retried  == /\ v.results.endpoints # <<>>
                    /\ v.results.endpoints[Len(v.results.endpoints)].url = check.url
    IN  [v EXCEPT !.k = IF "error" \in DOMAIN check /\ ~retried THEN @ ELSE @ + 1,
                  !.alive = IF check.ok THEN @ + 1 ELSE @,
                  !.results.endpoints = recorded]

(* Lines 71-73: the loop takes the result check of the probe.              *)
Collected(v, check) ==
    [v EXCEPT !.k = @ + 1,
              !.alive = IF check.ok THEN @ + 1 ELSE @,
              !.results.endpoints =
                  Append(@, Named(check, v.services[v.k]))]

(* The deadline of the timer of the probe in flight.                       *)
Deadline == probe.start + TIMEOUT_MS

(* fetch resolves with the response res: lines 18-28, then 71-73.          *)
FetchResponds(res) ==
    /\ res.kind = "response"
    /\ ~(probe.ctl \in aborted)
    /\ now + res.ms <= Deadline
    /\ now' = now + res.ms
    /\ timers' = {t \in timers : t.ctl # probe.ctl}
    /\ verify' = Collected(verify,
                    ProbeResponse(probe.request.url, probe.protocol, probe.start, res, now'))
    /\ wire' = Ended(wire, res, now')
    /\ probe' = Nothing
    /\ pc' = "verifying"
    /\ UNCHANGED <<auditVars, scanVars, score, aborted>>

(* fetch rejects with the error e: lines 29-37, then 71-73. The timer of   *)
(* the call stays armed.                                                   *)
FetchRejects(e) ==
    /\ e.kind = "error"
    /\ ~(probe.ctl \in aborted)
    /\ now + e.ms <= Deadline
    /\ now' = now + e.ms
    /\ verify' = Collected(verify,
                    ProbeFailure(probe.request.url, probe.protocol, probe.start, e, now'))
    /\ wire' = Ended(wire, e, now')
    /\ probe' = Nothing
    /\ pc' = "verifying"
    /\ UNCHANGED <<auditVars, scanVars, score, timers, aborted>>

(* The request in flight settles the way the network allows.              *)
FetchSettles ==
    /\ pc = "probing"
    /\ \E outcome \in Behaviours(probe.request.url) :
          FetchResponds(outcome) \/ FetchRejects(outcome)

(* The timer t fires, line 10: it aborts its controller. A request in      *)
(* flight with the signal of that controller rejects with an AbortError,   *)
(* lines 29-37, then 71-73; on a call that has ended the abort does        *)
(* nothing. Timers fire in the order of their deadlines, and only while    *)
(* the program awaits.                                                     *)
TimerFires(t) ==
    /\ pc \in {"probing", "verified"}
    /\ t \in timers
    /\ \A u \in timers : u.at >= t.at
    /\ now' = IF now > t.at THEN now ELSE t.at
    /\ timers' = timers \ {t}
    /\ aborted' = aborted \cup {t.ctl}
    /\ IF pc = "probing" /\ probe.ctl = t.ctl
       THEN /\ Stalls \in Behaviours(probe.request.url)
            /\ verify' = Collected(verify,
                            ProbeFailure(probe.request.url, probe.protocol,
                                         probe.start, AbortError, now'))
            /\ wire' = Ended(wire, Stalls, now')
            /\ probe' = Nothing
            /\ pc' = "verifying"
       ELSE UNCHANGED <<pc, verify, probe, wire>>
    /\ UNCHANGED <<auditVars, scanVars, score>>

(* Lines 76-90: the loop is over.                                          *)
VerifyFinish ==
    /\ pc = "verifying"
    /\ verify.k > Len(verify.services)
    /\ verify' = [verify EXCEPT !.results = Classified(@, verify.alive)]
    /\ pc' = "verified"
    /\ UNCHANGED <<auditVars, scanVars, score, probe, timers, aborted, now, wire>>

VerifyCall ==
    \/ VerifyStart(Reverted)
    \/ VerifyStart(Profile(NearOwner, JNull))
    \/ \E k \in 1..Len(NotArrays) :
          VerifyStart(Profile(NearOwner, Document(JStr("Agent"), UNDEF, NotArrays[k])))
    \/ \E start \in 1..Len(ServiceEntries), n \in 0..MaxProbed :
          VerifyStart(Profile(NearOwner,
              Document(JStr("Agent"), UNDEF, ServiceList(start, 1, n))))
    \/ \E up \in 0..FleetSize :
          VerifyStart(Profile(NearOwner, Document(JStr("Fleet"), UNDEF, Fleet(up))))
    \/ VerifySkip
    \/ ProbeStart
    \/ FetchSettles
    \/ \E t \in timers : TimerFires(t)
    \/ VerifyFinish

(* scoreAgent(agentId, chain), lines 75-135: getAgentProfile has settled   *)
(* with p and, inside verifyAgent, with again; the network does outcomes   *)
(* with the probes; the registration is elapsed seconds old and the owner  *)
(* has sent txCount transactions (both 0 when the lookup failed).          *)
ScoreAgent(p, again, outcomes, elapsed, txCount) ==
    /\ pc = "idle"
    /\ pc' = "scored"
    /\ profile' = p
    /\ IF ~p.ok
       THEN score' = [report |-> Threw(p.error)]
       ELSE LET verification == verifyAgent(again, outcomes)
                ageDays      == getRegistrationAge(elapsed)
            IN  score' = [verification |-> verification,
                          elapsed      |-> elapsed,
                          ageDays      |-> ageDays,
                          txCount      |-> txCount,
                          report       |-> scoreAgent(p, verification, ageDays, txCount)]
    /\ UNCHANGED <<checks, audit, scanVars, verifyVars>>

ScoreCall ==
    \/ ScoreAgent(Reverted, Reverted, <<>>, 0, 0)
    \/ \E elapsed \in AgeSeconds, txCount \in TxCounts :
          \/ ScoreAgent(Profile(NearOwner, JNull), Profile(NearOwner, JNull),
                        <<>>, elapsed, txCount)
          \/ \E n \in 1..Len(ScoreNames), d \in 1..Len(ScoreDescriptions),
                x \in 1..Len(Extras), c \in 0..MaxProbed :
                LET p == Profile(NearOwner,
                             DocumentWith(ScoreNames[n], ScoreDescriptions[d],
                                          ServiceList(4, 1, c), Extras[x]))
                IN  \/ \E up \in 0..c : ScoreAgent(p, p, FirstUp(up, c), elapsed, txCount)
                    \/ ScoreAgent(p, Reverted, <<>>, elapsed, txCount)

Next == AuditCall \/ ScanCall \/ VerifyCall \/ ScoreCall \/ Return

Spec == Init /\ [][Next]_vars

SpecAudit == Init /\ [][AuditCall \/ Return]_vars

SpecScan == Init /\ [][ScanCall \/ Return]_vars

SpecVerify == Init /\ [][VerifyCall \/ Return]_vars

SpecScore == Init /\ [][ScoreCall \/ Return]_vars

(* The two operations that loop: the verification and the batch scan.      *)
SpecLoops == Init /\ [][VerifyCall \/ ScanCall \/ Return]_vars

----------------------------------------------------------------------------
(* Properties of the audit.                                                *)

Audited == pc = "audited" /\ audit.ok

(* The owner is, compared case-insensitively, one of the deny-listed       *)
(* addresses.                                                              *)
DenyListed(owner) ==
    \E a \in {TornadoRouter1, TornadoRouter2} : toLowerCase(owner) = toLowerCase(a)

SameButOwner == auditAgent(Profile(NearOwner, profile.metadata))

RiskRank(level) == CASE level = "HIGH" -> 0 [] level = "MEDIUM" -> 1 [] level = "LOW" -> 2

RiskOf(overall) ==
    IF overall < 50 THEN "HIGH" ELSE IF overall < 75 THEN "MEDIUM" ELSE "LOW"

(* C7: the risk level is HIGH below 50, MEDIUM from 50 to 74 and LOW from  *)
(* 75 on, for the audited identity and for every overall score; a higher   *)
(* overall score never gives a worse level.                                *)
C7_RiskLevel ==
    Audited =>
        /\ audit.riskLevel = RiskOf(audit.scores.overall)
        /\ \A o \in 0..100 : AuditRiskLevel(o) = RiskOf(o)
        /\ AuditRiskLevel(49) = "HIGH" /\ AuditRiskLevel(50) = "MEDIUM"
        /\ AuditRiskLevel(74) = "MEDIUM" /\ AuditRiskLevel(75) = "LOW"
        /\ \A o \in 0..100 :
              o >= audit.scores.overall
                  => RiskRank(AuditRiskLevel(o)) >= RiskRank(audit.riskLevel)

(* An audit whose overall score is exactly at the threshold 75.            *)
C7_Witness ==
    /\ Audited
    /\ audit.scores.overall = 75
    /\ audit.riskLevel = "LOW"

----------------------------------------------------------------------------
(* Properties of the batch scan.                                           *)

Scanning == pc \in {"scanning", "scanned"}

(* C1: scanned = healthy + warnings + critical after every processed       *)
(* identity and in the returned report.                                    *)
C1_ScannedIsSum ==
    Scanning =>
        scan.results.scanned
            = scan.results.healthy + scan.results.warnings + scan.results.critical

(* A returned report over three identities, one of which failed, with two  *)
(* different buckets counted.                                              *)
C1_Witness ==
    /\ pc = "scanned"
    /\ Len(scan.registrations) = 3
    /\ scan.results.scanned = 2
    /\ scan.results.critical = 1
    /\ scan.results.warnings = 1

(* The audit of the registration reg resolves.                             *)
AuditResolves(reg) == auditAgent(Registry[reg.agentId]).ok

(* The registrations the loop has passed.                                  *)
Passed == SubSeq(scan.registrations, 1, scan.i - 1)

----------------------------------------------------------------------------
(* Properties of the verification.                                         *)

Verified == pc = "verified" /\ verify.results.ok

(* v is a non-empty string.                                                *)
NonEmptyString(v) == v.t = "string" /\ v.s # ""

(* The services the audited document declares.                             *)
Declared ==
    LET services == OptGet(profile.metadata, "services")
    IN  IF services.t = "array" THEN services.a ELSE <<>>

(* The declared services that have a non-empty endpoint string.            *)
WithEndpoint == {k \in 1..Len(Declared) : NonEmptyString(Get(Declared[k], "endpoint"))}

(* The requests the network answered with a status code in [200, 400).     *)
Reached ==
    {j \in 1..Len(wire) :
        /\ wire[j].ended.outcome.kind = "response"
        /\ wire[j].ended.outcome.status \in 200..399}

(* round(100 * a / t), the half rounded up.                                *)
RoundedPercent(a, t) == (200 * a + t) \div (2 * t)

(* C9, as stated: with total the number of declared services that have a   *)
(* non-empty endpoint string and alive the number of those whose probe was *)
(* reachable, the verification is no-endpoints with score 0 when total = 0 *)
(* (metadata absent and no services declared included), healthy with score *)
(* 100 when alive = total > 0, degraded with score round(100*alive/total)  *)
(* when 0 < alive < total, offline with score 0 when alive = 0 < total;    *)
(* services without an endpoint are neither probed nor counted.            *)
C9_Original ==
    Verified =>
        LET total == Cardinality(WithEndpoint)
            alive == Cardinality(Reached)
            r == verify.results
        IN  /\ Len(wire) = total
            /\ Len(r.endpoints) = total
            /\ total = 0 => r.overallStatus = "no-endpoints" /\ r.score = 0
            /\ (total > 0 /\ alive = total) =>
                  r.overallStatus = "healthy" /\ r.score = 100
            /\ (0 < alive /\ alive < total) =>
                  r.overallStatus = "degraded" /\ r.score = RoundedPercent(alive, total)
            /\ (total > 0 /\ alive = 0) =>
                  r.overallStatus = "offline" /\ r.score = 0

(* A verification of 40 services of which 23 were reachable: 57.5 percent, *)
(* which the code scores 57.                                               *)
C9_Witness ==
    /\ Verified
    /\ Cardinality(WithEndpoint) = 40
    /\ Cardinality(Reached) = 23
    /\ verify.results.overallStatus = "degraded"
    /\ verify.results.score = 57

(* C10: a probe always ends with a result, and the result carries the      *)
(* elapsed time as latency; when the request was aborted by the timeout    *)
(* the result has error "Timeout", ok = false and status 0; when fetch     *)
(* failed otherwise it has the message of the failure, ok = false and      *)
(* status 0; when a response was received it has the status of the         *)
(* response and ok is true exactly when 200 <= status < 400.               *)
C10_ProbeResult ==
    pc \in {"verifying", "probing", "verified"} /\ verify.results.ok =>
        LET results == verify.results.endpoints
            ended == {j \in 1..Len(wire) : wire[j].ended.outcome.kind # "pending"}
        IN  /\ ended = 1..Len(results)
            /\ (pc = "probing") = (Len(wire) = Len(results) + 1)
            /\ (pc # "probing") => (Len(wire) = Len(results))
            /\ \A j \in 1..Len(results) :
                  LET r == results[j]
                      w == wire[j]
                      outcome == w.ended.outcome
                  IN  /\ r.url = w.request.url
                      /\ r.latency = w.ended.at - w.sent
                      /\ r.latency >= 0
                      /\ outcome.kind = "stall" =>
                            /\ r.error = "Timeout" /\ ~r.ok /\ r.status = 0
                            /\ r.latency >= TIMEOUT_MS
                      /\ outcome.kind = "error" =>
                            r.error = outcome.message /\ ~r.ok /\ r.status = 0
                      /\ outcome.kind = "response" =>
                            /\ r.status = outcome.status
                            /\ r.ok = (outcome.status >= 200 /\ outcome.status < 400)
                            /\ ~("error" \in DOMAIN r)

(* A verification whose three probes ended in a timeout, in a failure of   *)
(* fetch and in a response with status 400.                                *)
C10_Witness ==
    /\ Verified
    /\ \E a, b, c \in 1..Len(verify.results.endpoints) :
          /\ wire[a].ended.outcome.kind = "stall"
          /\ verify.results.endpoints[a].error = "Timeout"
          /\ wire[b].ended.outcome.kind = "error"
          /\ verify.results.endpoints[b].error = "fetch failed"
          /\ wire[c].ended.outcome.kind = "response"
          /\ verify.results.endpoints[c].status = 400
          /\ ~verify.results.endpoints[c].ok

----------------------------------------------------------------------------
(* Properties of the reputation score.                                     *)

Scored == pc = "scored" /\ score.report.ok

(* round(n / 100), the half rounded up, for n >= 0.                        *)
RoundedHundredth(n) == (n + 50) \div 100

(* C6, as stated: the overall audit score is round(schema*0.25 +           *)
(* endpoint*0.30 + content*0.30 + reputation*0.15) and the overall         *)
(* reputation score is round(metadata*0.25 + health*0.30 + age*0.20 +      *)
(* activity*0.25); both are in 0..100 and are 100 when the four sub-scores *)
(* are 100.                                                                *)
C6_Original ==
    /\ Audited =>
          LET v == audit.scores
          IN  /\ v.overall = RoundedHundredth(25 * v.schema + 30 * v.endpoint
                                              + 30 * v.content + 15 * v.reputation)
              /\ v.overall \in 0..100
    /\ Scored =>
          LET v == score.report.scores
          IN  /\ v.overall = RoundedHundredth(25 * v.metadata + 30 * v.health
                                              + 20 * v.age + 25 * v.activity)
              /\ v.overall \in 0..100
    /\ AuditOverall(100, 100, 100, 100) = 100
    /\ ScoreOverall(100, 100, 100, 100) = 100

(* A score whose weighted sum is 7.5 + 20.1 + 0.4 + 2.5 = 30.5 and whose   *)
(* overall is 30.                                                          *)
C6_Witness ==
    /\ Scored
    /\ score.report.scores.metadata = 30
    /\ score.report.scores.health = 67
    /\ score.report.scores.age = 2
    /\ score.report.scores.activity = 10
    /\ score.report.scores.overall = 30

(* The name of a tier: the text after the badge.                           *)
RECURSIVE AfterSpace(_, _)
AfterSpace(tier, i) ==
    IF i > Len(tier) THEN tier
    ELSE IF CharAt(tier, i) = " " THEN SubSeq(tier, i + 1, Len(tier))
    ELSE AfterSpace(tier, i + 1)

TierName(tier) == AfterSpace(tier, 1)

TierOf(overall) ==
    IF overall >= 90 THEN "Platinum"
    ELSE IF overall >= 75 THEN "Gold"
    ELSE IF overall >= 50 THEN "Silver"
    ELSE IF overall >= 25 THEN "Bronze"
    ELSE "Unrated"

TierRank(name) ==
    CASE name = "Unrated" -> 0 [] name = "Bronze" -> 1 [] name = "Silver" -> 2
      [] name = "Gold" -> 3 [] name = "Platinum" -> 4

----------------------------------------------------------------------------
(* Properties of the audit of absent and of malformed metadata.            *)

(* auditAgent has settled for an identity that resolved.                   *)
AuditSettled == pc = "audited" /\ profile.ok

(* C11: for an identity whose metadata is null and whose owner is not      *)
(* deny-listed the audit resolves: the schema check gives score 0 with     *)
(* exactly one critical issue, the endpoint-security and content-safety    *)
(* checks give score 100 with no findings, and the overall score is 75     *)
(* with risk level LOW.                                                    *)
C11_NullMetadata ==
    (AuditSettled /\ profile.metadata = JNull /\ ~DenyListed(profile.owner)) =>
        /\ audit.ok
        /\ checks.schema.score = 0
        /\ Len(checks.schema.issues) = 1
        /\ checks.schema.warnings = <<>>
        /\ checks.endpoint = Returned(<<>>, <<>>, 100)
        /\ checks.content = Returned(<<>>, <<>>, 100)
        /\ audit.scores.overall = 75
        /\ audit.riskLevel = "LOW"
        /\ Len(audit.findings) = 1
        /\ audit.findings[1].category = "Schema"
        /\ audit.findings[1].severity = "critical"

(* The audit of an identity with null metadata and an owner that is not    *)
(* deny-listed has resolved.                                               *)
C11_Witness ==
    /\ AuditSettled
    /\ profile.metadata = JNull
    /\ profile.owner = NearOwner
    /\ audit.ok
    /\ audit.scores.overall = 75

(* The metadata is present and its only defects are a missing name or      *)
(* description, services that are missing or not an array, or services     *)
(* that lack a name or an endpoint.                                        *)
MalformedOnly ==
    /\ Truthy(profile.metadata)
    /\ LET services == Get(profile.metadata, "services")
       IN  services.t = "array" =>
              \A k \in 1..Len(services.a) :
                  ~Truthy(Get(services.a[k], "name")) \/ ~Truthy(Get(services.a[k], "endpoint"))

(* C12, as stated: for every metadata document that is present but         *)
(* malformed (name or description missing, services missing or not an      *)
(* array, a service lacking a name or an endpoint) the audit returns a     *)
(* report and does not throw, and the defects appear only as findings of   *)
(* the schema check.                                                       *)
C12_Original ==
    (AuditSettled /\ MalformedOnly) =>
        /\ audit.ok
        /\ checks.endpoint = Returned(<<>>, <<>>, 100)

(* The audit of a document whose services are a number has thrown.         *)
C12_Witness ==
    /\ AuditSettled
    /\ Get(profile.metadata, "services") = JNum(5)
    /\ ~audit.ok
    /\ audit.error = "TypeError"

----------------------------------------------------------------------------
(* Properties of the sub-scores of the reputation score.                   *)

(* scoreAgent has settled for an identity that resolved.                   *)
ScoreSettled == pc = "scored" /\ profile.ok

(* C13: when verifyAgent fails inside scoreAgent the failure is not        *)
(* propagated: scoreAgent still resolves with a report whose health score  *)
(* is 0 and whose metadata, age and activity scores are computed from the  *)
(* metadata, the age and the transaction count as usual.                   *)
C13_HealthFailure ==
    (ScoreSettled /\ ~score.verification.ok) =>
        /\ score.report.ok
        /\ score.report.scores.health = 0
        /\ score.report.scores.metadata = scoreMetadataCompleteness(profile.metadata)
        /\ score.report.scores.age = AgeScore(score.ageDays)
        /\ score.report.scores.activity = ActivityScore(score.txCount)
        /\ score.report.scores.overall \in 0..100
        /\ TierName(score.report.tier) \in {"Platinum", "Gold", "Silver", "Bronze", "Unrated"}

(* scoreAgent has resolved although verifyAgent rejected, and the other    *)
(* three sub-scores are not 0.                                             *)
C13_Witness ==
    /\ ScoreSettled
    /\ ~score.verification.ok
    /\ score.report.ok
    /\ score.report.scores.health = 0
    /\ score.report.scores.metadata > 0
    /\ score.report.scores.age > 0
    /\ score.report.scores.activity > 0

(* The field of the metadata document is present.                          *)
Has(field) == Get(profile.metadata, field) # UNDEF

(* The points of a rubric line that applies.                               *)
Points(applies, points) == IF applies THEN points ELSE 0

(* The number of services the metadata document declares.                  *)
ServiceCount ==
    IF Get(profile.metadata, "services").t = "array"
    THEN Len(Get(profile.metadata, "services").a) ELSE 0

(* C14: the metadata completeness score is 0 for absent metadata and       *)
(* otherwise the sum, capped at 100, of 15 for a name, 15 for a            *)
(* description, 10 more for a description longer than 50 characters, 10    *)
(* for active being present whatever its value, 10 for x402Support         *)
(* likewise, 20 for one service or more, 10 more for more than one, 5 for  *)
(* an image and 5 for a version. A name, a 60-character description,       *)
(* active, x402Support and two services without image and version give 90. *)
C14_Completeness ==
    ScoreSettled =>
        /\ score.report.ok
        /\ IF profile.metadata = JNull
           THEN score.report.scores.metadata = 0
           ELSE score.report.scores.metadata =
                   MathMin(100,
                       Points(Has("name"), 15)
                       + Points(Has("description"), 15)
                       + Points(Has("description")
                                /\ Len(Get(profile.metadata, "description").s) > 50, 10)
                       + Points(Has("active"), 10)
                       + Points(Has("x402Support"), 10)
                       + Points(ServiceCount >= 1, 20)
                       + Points(ServiceCount > 1, 10)
                       + Points(Has("image"), 5)
                       + Points(Has("version"), 5))
        /\ (/\ profile.metadata # JNull
            /\ Has("name")
            /\ Has("description")
            /\ Len(Get(profile.metadata, "description").s) = 60
            /\ Has("active") /\ Has("x402Support")
            /\ ServiceCount = 2
            /\ ~Has("image") /\ ~Has("version"))
           => score.report.scores.metadata = 90

(* The document of the example has been scored 90; its active is false.    *)
C14_Witness ==
    /\ ScoreSettled
    /\ profile.metadata # JNull
    /\ Get(profile.metadata, "name") = JStr("Agent")
    /\ Get(profile.metadata, "description") = JStr(Desc60)
    /\ Get(profile.metadata, "active") = JBool(FALSE)
    /\ Get(profile.metadata, "x402Support") = JBool(TRUE)
    /\ ServiceCount = 2
    /\ ~Has("image") /\ ~Has("version")
    /\ score.report.scores.metadata = 90

(* round(elapsed / 86400 / 90 * 100) for an age of elapsed seconds, the    *)
(* half rounded up: elapsed / 77760 rounded.                               *)
RoundedAgePercent(elapsed) == (elapsed + 38880) \div 77760

(* C17, as stated: the metadata, health, age, activity and overall scores  *)
(* of a reputation report are integers in 0..100; the age score is         *)
(* min(100, round(age / 90 * 100)) and is 100 from 90 days on; the         *)
(* activity score is 0 for a transaction count of 0 or 1.                  *)
C17_Original ==
    Scored =>
        LET v == score.report.scores
        IN  /\ {v.metadata, v.health, v.age, v.activity, v.overall} \subseteq 0..100
            /\ v.age = MathMin(100, RoundedAgePercent(score.elapsed))
            /\ score.elapsed >= 90 * 86400 => v.age = 100
            /\ score.txCount \in {0, 1} => v.activity = 0

(* A registration 51.75 days old has been scored 57 for its age:           *)
(* 51.75 / 90 * 100 is 57.5.                                               *)
C17_Witness ==
    /\ Scored
    /\ score.elapsed = 4471200
    /\ score.ageDays = FAdd(FromInt(51), FMulInt(W025, 3))
    /\ score.report.scores.age = 57

----------------------------------------------------------------------------
(* Properties of the findings of the audit.                                *)

(* The four checks in the order auditAgent runs them, with the category    *)
(* their findings carry.                                                   *)
CheckOrder == <<"schema", "endpoint", "content", "reputation">>
CategoryOf(check) ==
    CASE check = "schema" -> "Schema"
      [] check = "endpoint" -> "Endpoint"
      [] check = "content" -> "Content"
      [] check = "reputation" -> "Reputation"

(* The place of a finding in the stated order: severity first, then the    *)
(* check it comes from.                                                    *)
FindingRank(f) ==
    (IF f.severity = "critical" THEN 0 ELSE 4)
    + (CHOOSE k \in 1..4 : CategoryOf(CheckOrder[k]) = f.category)

(* The texts of the findings of one category and severity, in list order.  *)
TextsOf(category, severity) ==
    LET chosen == SelectSeq(audit.findings,
                      LAMBDA f : f.category = category /\ f.severity = severity)
    IN  [k \in 1..Len(chosen) |-> chosen[k].text]

(* C15: the finding list of a report holds every critical issue before     *)
(* every warning; within a severity the findings follow the check order    *)
(* schema, endpoint, content, reputation; within one check they keep the   *)
(* order in which the check produced them; each finding carries its        *)
(* category and its severity; the length is the number of issues plus the  *)
(* number of warnings of the four checks.                                  *)
C15_FindingOrder ==
    Audited =>
        /\ \A k \in 1..Len(audit.findings) :
              /\ audit.findings[k].severity \in {"critical", "warning"}
              /\ audit.findings[k].category \in {"Schema", "Endpoint", "Content", "Reputation"}
        /\ \A i, j \in 1..Len(audit.findings) :
              i < j => FindingRank(audit.findings[i]) <= FindingRank(audit.findings[j])
        /\ \A k \in 1..4 :
              /\ TextsOf(CategoryOf(CheckOrder[k]), "critical") = checks[CheckOrder[k]].issues
              /\ TextsOf(CategoryOf(CheckOrder[k]), "warning") = checks[CheckOrder[k]].warnings
        /\ Len(audit.findings) =
              Len(checks.schema.issues) + Len(checks.schema.warnings)
              + Len(checks.endpoint.issues) + Len(checks.endpoint.warnings)
              + Len(checks.content.issues) + Len(checks.content.warnings)
              + Len(checks.reputation.issues) + Len(checks.reputation.warnings)

(* A report in which the schema check produced an issue and a warning, the *)
(* endpoint check two issues and two warnings or more, and the content     *)
(* check two issues.                                                       *)
C15_Witness ==
    /\ Audited
    /\ Len(checks.schema.issues) >= 1
    /\ Len(checks.schema.warnings) >= 1
    /\ Len(checks.endpoint.issues) >= 2
    /\ Len(checks.endpoint.warnings) >= 2
    /\ Len(checks.content.issues) >= 2
    /\ audit.findings[Len(checks.schema.issues) + 1].category = "Endpoint"

----------------------------------------------------------------------------
(* Properties of the timeout of a probe.                                   *)

(* C16: the timeout of one probe fails that probe alone. A probe ends in   *)
(* "Timeout" only when its own timer fired, TIMEOUT_MS after it started;   *)
(* the signal of the probe in flight is never aborted by the timer of      *)
(* another probe; and a probe that received a response or a failure of     *)
(* fetch keeps that result whatever timers of earlier probes have fired    *)
(* meanwhile.                                                              *)
C16_ProbeIsolation ==
    pc \in {"verifying", "probing", "verified"} /\ verify.results.ok =>
        LET results == verify.results.endpoints
        IN  /\ pc = "probing" => ~(wire[Len(wire)].signal \in aborted)
            /\ \A j \in 1..Len(results) :
                  LET r == results[j]
                      w == wire[j]
                      timedOut == "error" \in DOMAIN r /\ r.error = "Timeout"
                  IN  /\ timedOut = (w.ended.outcome.kind = "stall")
                      /\ timedOut =>
                            /\ w.signal \in aborted
                            /\ w.ended.at = w.sent + TIMEOUT_MS
                            /\ r.latency = TIMEOUT_MS
                      /\ w.ended.outcome.kind = "response" =>
                            /\ r.status = w.ended.outcome.status
                            /\ r.ok = (r.status >= 200 /\ r.status < 400)
                      /\ w.ended.outcome.kind = "error" =>
                            "error" \in DOMAIN r /\ r.error = w.ended.outcome.message

(* The timer of a probe that had failed fired while a later probe was in   *)
(* flight, and the later probe ended with the response it received.        *)
C16_Witness ==
    /\ Verified
    /\ \E a, b \in 1..Len(verify.results.endpoints) :
          /\ a < b
          /\ wire[a].ended.outcome.kind = "error"
          /\ wire[a].signal \in aborted
          /\ wire[b].sent < wire[a].sent + TIMEOUT_MS
          /\ wire[a].sent + TIMEOUT_MS < wire[b].ended.at
          /\ wire[b].ended.outcome.kind = "response"
          /\ verify.results.endpoints[b].ok
          /\ verify.results.endpoints[b].status = 200

----------------------------------------------------------------------------
(* Properties of the endpoint-security check.                              *)

(* The services the metadata document declares, and the URL of one.        *)
DeclaredServices ==
    IF Truthy(profile.metadata) /\ Get(profile.metadata, "services").t = "array"
    THEN Get(profile.metadata, "services").a ELSE <<>>
UrlOf(service) == IF Get(service, "endpoint").t = "string" THEN Get(service, "endpoint").s ELSE ""

(* The host of a URL: the text between "://" and the next "/", ":", "?"    *)
(* or "#".                                                                 *)
Host(url) ==
    IF ~includes(url, "://") THEN ""
    ELSE LET first == CHOOSE i \in 1..Len(url) :
                          /\ includesAt(url, "://", i)
                          /\ \A j \in 1..(i - 1) : ~includesAt(url, "://", j)
             ends  == {j \in (first + 3)..Len(url) : CharAt(url, j) \in {"/", ":", "?", "#"}}
             stop  == IF ends = {} THEN Len(url) + 1
                      ELSE CHOOSE j \in ends : \A k \in ends : j <= k
         IN  SubSeq(url, first + 3, stop - 1)

(* The host is a dotted quad: four groups of one to three digits.          *)
IsDottedQuad(h) ==
    \E a, b, c \in 1..Len(h) :
        /\ a < b /\ b < c
        /\ \A i \in 1..Len(h) : IF i \in {a, b, c} THEN CharAt(h, i) = "." ELSE IsDigit(CharAt(h, i))
        /\ {a - 1, b - a - 1, c - b - 1, Len(h) - c} \subseteq 1..3

(* The findings the stated rules give for one URL.                         *)
StatedCriticals(url) ==
    IF startsWith(url, "http://") /\ Host(url) \notin {"localhost", "127.0.0.1"}
    THEN 1 ELSE 0
StatedWarnings(url) ==
    Cardinality({d \in 1..Len(SUSPICIOUS_DOMAINS) : includes(url, SUSPICIOUS_DOMAINS[d])})
    + (IF IsDottedQuad(Host(url)) THEN 1 ELSE 0)

RECURSIVE SumOver(_, _, _)
SumOver(services, Count(_), i) ==
    IF i > Len(services) THEN 0
    ELSE Count(UrlOf(services[i])) + SumOver(services, Count, i + 1)

(* C18, as stated: the endpoint-security check gives, for each declared    *)
(* service with a URL, one critical issue when the URL uses plain http://  *)
(* and its host is not localhost or 127.0.0.1, one warning for each        *)
(* deny-list entry the URL contains and one warning when the host of the   *)
(* URL is a dotted-quad IPv4 literal; the score is 100 minus 20 for each   *)
(* critical issue and 10 for each warning, not below 0, and 100 with no    *)
(* findings when there are no services.                                    *)
C18_Original ==
    Audited =>
        LET criticals == SumOver(DeclaredServices, StatedCriticals, 1)
            warnings  == SumOver(DeclaredServices, StatedWarnings, 1)
        IN  /\ Len(checks.endpoint.issues) = criticals
            /\ Len(checks.endpoint.warnings) = warnings
            /\ checks.endpoint.score = MathMax(0, 100 - 20 * criticals - 10 * warnings)
            /\ DeclaredServices = <<>> => checks.endpoint = Returned(<<>>, <<>>, 100)

(* A service served over plain http by hooks.example.net, whose URL has    *)
(* "localhost" in its query, has been audited without a critical issue.    *)
C18_Witness ==
    /\ Audited
    /\ Len(DeclaredServices) = 1
    /\ UrlOf(DeclaredServices[1]) = "http://hooks.example.net/cb?from=localhost"
    /\ Host(UrlOf(DeclaredServices[1])) = "hooks.example.net"
    /\ checks.endpoint.issues = <<>>
    /\ checks.endpoint.score = 90

----------------------------------------------------------------------------
(* Properties of the schema check.                                         *)

(* The declared services that have no endpoint, in order, and the name the *)
(* issue of a service carries.                                             *)
WithoutEndpoint ==
    SelectSeq(DeclaredServices, LAMBDA service : Get(service, "endpoint") = UNDEF)
IssueName(service) ==
    IF Get(service, "name") = UNDEF THEN "unnamed" ELSE Get(service, "name").s

(* The issues of the schema check about services, in order.                *)
ServiceIssues ==
    SelectSeq(checks.schema.issues, LAMBDA text : startsWith(text, "Service "))

(* C19: the schema check gives exactly one critical issue and score 0 for  *)
(* absent metadata, without evaluating another rule. For present metadata  *)
(* it gives a critical issue for a missing name, a warning for a missing   *)
(* description, a warning for a name longer than 200 characters, a warning *)
(* when services is missing or not an array, and one critical issue for    *)
(* each declared service without an endpoint, naming the service or        *)
(* "unnamed"; the score is 100 minus 15 for each critical issue and 5 for  *)
(* each warning, not below 0.                                              *)
C19_SchemaCheck ==
    AuditSettled =>
        IF profile.metadata = JNull
        THEN /\ Len(checks.schema.issues) = 1
             /\ checks.schema.warnings = <<>>
             /\ checks.schema.score = 0
        ELSE LET criticals == Points(~Has("name"), 1) + Len(WithoutEndpoint)
                 warnings  == Points(~Has("description"), 1)
                              + Points(Has("name") /\ Len(Get(profile.metadata, "name").s) > 200, 1)
                              + Points(Get(profile.metadata, "services").t # "array", 1)
             IN  /\ Len(checks.schema.issues) = criticals
                 /\ Len(checks.schema.warnings) = warnings
                 /\ checks.schema.score = MathMax(0, 100 - 15 * criticals - 5 * warnings)
                 /\ Len(ServiceIssues) = Len(WithoutEndpoint)
                 /\ \A k \in 1..Len(WithoutEndpoint) :
                       includes(ServiceIssues[k],
                                "\"" \o IssueName(WithoutEndpoint[k]) \o "\"")

(* The schema check has run on a document without name and description     *)
(* that declares two services called idle, both without endpoint.          *)
C19_Witness ==
    /\ AuditSettled
    /\ profile.metadata # JNull
    /\ ~Has("name") /\ ~Has("description")
    /\ Len(WithoutEndpoint) = 2
    /\ IssueName(WithoutEndpoint[1]) = "idle"
    /\ Len(checks.schema.issues) = 3
    /\ checks.schema.warnings = <<"Missing \"description\" field">>
    /\ checks.schema.score = 50

----------------------------------------------------------------------------
(* Properties of the content-safety check.                                 *)

(* The serialized metadata document in lower case.                         *)
LoweredDocument == toLowerCase(stringify(profile.metadata))

(* The phishing patterns that match the text: the first word, then the     *)
(* second anywhere after it.                                               *)
MatchingPatterns(text) ==
    {k \in 1..Len(PHISHING_PATTERNS) :
        \E i \in 1..Len(text) :
            /\ includesAt(text, PHISHING_PATTERNS[k].a, i)
            /\ \E j \in (i + Len(PHISHING_PATTERNS[k].a))..Len(text) :
                  includesAt(text, PHISHING_PATTERNS[k].b, j)}

(* The number of critical issues the stated rules give for the text.       *)
StatedContentIssues(text) ==
    Cardinality(MatchingPatterns(text))
    + Points(includes(text, "<script") \/ includes(text, "javascript:"), 1)
    + Points(includes(text, "data:text/html"), 1)

(* C20: the content-safety check gives 100 and no findings for absent      *)
(* metadata. Otherwise, over the lowercased serialized document, it gives  *)
(* exactly one critical issue for each phishing pattern that matches, one  *)
(* if a script tag or a javascript: URI is present and one if              *)
(* data:text/html is present; it never gives a warning, and the score is   *)
(* 100 minus 25 for each critical issue, not below 0.                      *)
C20_ContentSafety ==
    AuditSettled =>
        IF profile.metadata = JNull
        THEN checks.content = Returned(<<>>, <<>>, 100)
        ELSE \A text \in {LoweredDocument} :
                \A criticals \in {StatedContentIssues(text)} :
                    \A matching \in {MatchingPatterns(text)} :
                 /\ Len(checks.content.issues) = criticals
                 /\ \A k \in 1..Len(PHISHING_PATTERNS) :
                       Cardinality({i \in 1..Len(checks.content.issues) :
                           checks.content.issues[i]
                               = "Phishing pattern detected: " \o PHISHING_PATTERNS[k].source})
                       = Points(k \in matching, 1)
                 /\ checks.content.warnings = <<>>
                 /\ checks.content.score = MathMax(0, 100 - 25 * criticals)

(* The check has run on a document in which the five patterns, a script    *)
(* tag and data:text/html occur, partly in upper case: seven issues,       *)
(* score 0.                                                                *)
C20_Witness ==
    /\ AuditSettled
    /\ profile.metadata # JNull
    /\ Get(profile.metadata, "description") = JStr(LureAll)
    /\ Len(checks.content.issues) = 7
    /\ checks.content.score = 0

----------------------------------------------------------------------------
(* Properties of the summaries of the batch scan.                          *)

(* The place of the agent of a summary in the input sequence; the          *)
(* registrations of one scan are of distinct agents.                       *)
InputPlace(summary) ==
    CHOOSE k \in 1..Len(scan.registrations) :
        scan.registrations[k].agentId = summary.agentId

(* The number of summaries with the risk level level.                      *)
SummariesAt(level) ==
    Cardinality({k \in 1..Len(scan.results.agents) :
                    scan.results.agents[k].riskLevel = level})

(* C21: after a batch scan the summary list has exactly scanned entries,   *)
(* one for each identity whose audit resolved, in the relative order of    *)
(* the input sequence; healthy, warnings and critical are the numbers of   *)
(* summaries whose risk level is LOW, MEDIUM and HIGH.                     *)
C21_Summaries ==
    Scanning =>
        LET agents == scan.results.agents
        IN  /\ Len(agents) = scan.results.scanned
            /\ \A k \in 1..Len(agents) :
                  /\ \E j \in 1..(scan.i - 1) :
                        scan.registrations[j].agentId = agents[k].agentId
                  /\ auditAgent(Registry[agents[k].agentId]).ok
                  /\ agents[k].riskLevel = auditAgent(Registry[agents[k].agentId]).riskLevel
                  /\ agents[k].riskLevel \in {"LOW", "MEDIUM", "HIGH"}
            /\ \A j \in 1..(scan.i - 1) :
                  auditAgent(Registry[scan.registrations[j].agentId]).ok =>
                      Cardinality({k \in 1..Len(agents) :
                          agents[k].agentId = scan.registrations[j].agentId}) = 1
            /\ \A a, b \in 1..Len(agents) :
                  a < b => InputPlace(agents[a]) < InputPlace(agents[b])
            /\ scan.results.healthy = SummariesAt("LOW")
            /\ scan.results.warnings = SummariesAt("MEDIUM")
            /\ scan.results.critical = SummariesAt("HIGH")

(* A returned scan of three identities given in descending order of id,    *)
(* all audited, with one summary at each risk level.                       *)
C21_Witness ==
    /\ pc = "scanned"
    /\ Len(scan.registrations) = 3
    /\ scan.registrations[1].agentId > scan.registrations[2].agentId
    /\ scan.registrations[2].agentId > scan.registrations[3].agentId
    /\ Len(scan.results.agents) = 3
    /\ scan.results.healthy = 1
    /\ scan.results.warnings = 1
    /\ scan.results.critical = 1

----------------------------------------------------------------------------
(* Properties of the order of the probes and of the audits.                *)

(* The services the loop of verifyAgent has taken so far, the one whose    *)
(* probe is in flight included, and those of them with an endpoint.        *)
Taken ==
    SubSeq(verify.services, 1, IF pc = "probing" THEN verify.k ELSE verify.k - 1)
Probed == SelectSeq(Taken, LAMBDA service : Get(service, "endpoint") # UNDEF)

(* C22: within one verification the declared services with an endpoint    *)
(* are probed once each, in declaration order; a probe starts only after   *)
(* the one before it has ended; a probe that failed or timed out is        *)
(* recorded and not attempted again; the results are in declaration order, *)
(* each with the URL and the service name it was issued for. A batch scan  *)
(* audits each input identity at most once and does not audit again an     *)
(* identity whose audit failed.                                            *)
C22_OnceInOrder ==
    /\ (pc \in {"verifying", "probing", "verified"} /\ verify.results.ok) =>
          LET results == verify.results.endpoints
          IN  /\ Len(wire) = Len(Probed)
              /\ \A j \in 1..Len(wire) :
                    wire[j].request.url = Get(Probed[j], "endpoint").s
              /\ \A j \in 1..(Len(wire) - 1) :
                    /\ wire[j].ended.outcome.kind # "pending"
                    /\ wire[j].ended.at <= wire[j + 1].sent
              /\ Len(results) = IF pc = "probing" THEN Len(wire) - 1 ELSE Len(wire)
              /\ \A j \in 1..Len(results) :
                    /\ results[j].url = Get(Probed[j], "endpoint").s
                    /\ results[j].serviceName =
                          (IF Get(Probed[j], "name") = UNDEF THEN "unnamed"
                           ELSE Get(Probed[j], "name").s)
                    /\ results[j].latency = wire[j].ended.at - wire[j].sent
              /\ pc = "verified" =>
                    /\ Taken = verify.services
                    /\ DeclaredServices # <<>> => verify.services = DeclaredServices
    /\ Scanning =>
          /\ Len(stdout) = scan.i - 1
          /\ \A k \in 1..Len(stdout) :
                stdout[k].agentId = scan.registrations[k].agentId
          /\ \A a, b \in 1..Len(scan.results.agents) :
                a # b => scan.results.agents[a].agentId # scan.results.agents[b].agentId

(* A verification of three services has returned: the first probe failed,  *)
(* the service without endpoint was passed over, and the last probe timed  *)
(* out; two requests were sent.                                            *)
C22_Witness ==
    /\ Verified
    /\ Len(verify.services) = 3
    /\ Get(verify.services[2], "endpoint") = UNDEF
    /\ Len(wire) = 2
    /\ wire[1].ended.outcome.kind = "error"
    /\ wire[2].ended.outcome.kind = "stall"
    /\ wire[2].sent = wire[1].ended.at
    /\ Len(verify.results.endpoints) = 2
    /\ verify.results.endpoints[1].serviceName = "web"
    /\ verify.results.endpoints[2].serviceName = "mcp"
====
